---------------------------- MODULE Spec2Model ----------------------------
(***************************************************************************)
(* A model of go-mysql's connection pool (client/pool.go).                 *)
(*                                                                         *)
(* Every critical section of pool.synchro (Lock ... Unlock) is one atomic  *)
(* action; no section blocks while it holds the mutex, so the mutex itself *)
(* is not a variable.  The unbuffered channel readyConnection is modelled  *)
(* by recvq, the FIFO queue of goroutines blocked receiving on it (the Go  *)
(* runtime's recvq): a send is a rendezvous with the head of that queue.   *)
(* Time is counted in seconds and advances ClockStep seconds at a time.     *)
(***************************************************************************)
EXTENDS Integers, Sequences, FiniteSets, TLC

(* ------------------------------ bounds --------------------------------- *)

\* Number of goroutines calling GetConn / PutConn / DropConn.
NumCallers == 2
\* Number of connections connect() can ever return; afterwards it fails.
MaxConns == 2
\* The clock stops being advanced here; older timestamps slide instead.
MaxTime == 20

(* ------------------------- program constants --------------------------- *)

\* MaxIdleTimeoutWithoutPing, in seconds (idlePingTimeout).
MaxIdleTimeoutWithoutPing == 10
\* MaxNewConnectionAtOnce.
MaxNewConnectionAtOnce == 5
DefaultIdleTimeout == 30

Callers == 1..NumCallers
ConnIds == 1..MaxConns

VARIABLES
    limits,           \* [minAlive, maxAlive, maxIdle] of the Pool
    idleConnections,  \* pool.synchro.idleConnections
    idleCap,          \* cap(pool.synchro.idleConnections)
    stats,            \* pool.synchro.stats: [TotalCount, CreatedCount]
    ctxDone,          \* pool.ctx is cancelled
    recvq,            \* callers blocked receiving on pool.readyConnection
    prod,             \* newConnectionProducer: [pc, connection]
    jan,              \* closeOldIdleConnections: [pc, toPing, toClose]
    snc,              \* startNewConnections, per task: [active, left, connections]
    caller,           \* per caller: [pc, connection, result, pinged, handed,
                      \* afterClose]; handed is where the call's last
                      \* connection came from, afterClose whether the call
                      \* began after Close had returned
    closer,           \* the goroutine calling Close
    now,              \* utils.Now().Unix()
    tick,             \* a tick is pending on ticker.C
    connState,        \* per connection: "none", "open" or "closed"
    sawWaiting,       \* per caller: the callers that were blocked on
                      \* readyConnection when its GetConn began and have
                      \* not come out of getConnection since
    call,             \* a call of a function of the library: [fn, in, out,
                      \* done]
    gtidSet           \* a MysqlGTIDSet: its Sets, SID -> Intervals

vars == <<limits, idleConnections, idleCap, stats, ctxDone, recvq, prod, jan,
          snc, caller, closer, now, tick, connState, sawWaiting, call, gtidSet>>

minAlive == limits.minAlive
maxAlive == limits.maxAlive
maxIdle == limits.maxIdle
idlePingTimeout == MaxIdleTimeoutWithoutPing
idleCloseTimeout == DefaultIdleTimeout

\* The clock is read every ClockStep seconds: idlePingTimeout, two periods of
\* the janitor's ticker, so that a connection is seen less than, exactly and
\* more than idlePingTimeout after its last use.
ClockStep == idlePingTimeout

(* ------------------------------ helpers -------------------------------- *)

\* Connection{}: the zero value, conn == nil.
NoConn == [conn |-> 0, lastUseAt |-> 0]

Connection(id, ts) == [conn |-> id, lastUseAt |-> ts]

Max(a, b) == IF a >= b THEN a ELSE b
Min(a, b) == IF a <= b THEN a ELSE b

\* A NewPoolWithOptions that does not raise maxIdle to minAlive.
NewPoolWithOptions_NoIdleFloor(reqMin, reqMax, reqIdle) ==
    [minAlive |-> IF reqMin > reqMax THEN reqMax ELSE reqMin,
     maxAlive |-> reqMax,
     maxIdle |-> IF reqIdle > reqMax THEN reqMax ELSE reqIdle]

\* The limits NewPoolWithOptions keeps of the requested ones.
NewPoolWithOptions(reqMin, reqMax, reqIdle) ==
    LET min1 == IF reqMin > reqMax THEN reqMax ELSE reqMin
        idle1 == IF reqIdle > reqMax THEN reqMax ELSE reqIdle
        idle2 == IF idle1 <= min1 THEN min1 ELSE idle1
    IN [minAlive |-> min1, maxAlive |-> reqMax, maxIdle |-> idle2]

\* A getIdleConnectionUnsafe that leaves the connection on the slice.
getIdleConnectionUnsafe_NoTruncate(idle) ==
    IF Len(idle) = 0
    THEN [connection |-> NoConn, idle |-> idle]
    ELSE [connection |-> idle[Len(idle)], idle |-> idle]

\* getIdleConnectionUnsafe: pop the last idle connection, if any.
getIdleConnectionUnsafe(idle) ==
    IF Len(idle) = 0
    THEN [connection |-> NoConn, idle |-> idle]
    ELSE [connection |-> idle[Len(idle)],
          idle |-> SubSeq(idle, 1, Len(idle) - 1)]

\* A putConnectionUnsafe that appends whatever the capacity.
putConnectionUnsafe_Grow(connection, idle, cap, total, cs) ==
    [idle |-> Append(idle, connection), total |-> total, cs |-> cs]

\* putConnectionUnsafe: store the connection, or close it when the slice is
\* at its capacity.  Yields the new slice, TotalCount and connection states.
putConnectionUnsafe(connection, idle, cap, total, cs) ==
    IF Len(idle) = cap
    THEN [idle |-> idle, total |-> total - 1,
          cs |-> [cs EXCEPT ![connection.conn] = "closed"]]
    ELSE [idle |-> Append(idle, connection), total |-> total, cs |-> cs]

\* The loop of startNewConnections that puts every new connection.
RECURSIVE putAllUnsafe(_, _, _, _, _)
putAllUnsafe(connections, idle, cap, total, cs) ==
    IF connections = <<>>
    THEN [idle |-> idle, total |-> total, cs |-> cs]
    ELSE LET r == putConnectionUnsafe(Head(connections), idle, cap, total, cs)
         IN putAllUnsafe(Tail(connections), r.idle, cap, r.total, r.cs)

\* closeConn: TotalCount-- under the lock, then conn.Close().
closeConnTotal(total) == total - 1
closeConnState(cs, id) == [cs EXCEPT ![id] = "closed"]

\* The loop of getOldIdleConnections, from index i down to 1: a connection
\* not used since checkBefore is moved to dst and the last one takes its place.
RECURSIVE scanOld(_, _, _, _)
scanOld(idle, dst, i, checkBefore) ==
    IF i = 0
    THEN [idle |-> idle, dst |-> dst]
    ELSE IF idle[i].lastUseAt > checkBefore
         THEN scanOld(idle, dst, i - 1, checkBefore)
         ELSE LET last == Len(idle)
                  swapped == IF i < last
                             THEN [idle EXCEPT ![i] = idle[last], ![last] = idle[i]]
                             ELSE idle
              IN scanOld(SubSeq(swapped, 1, last - 1), Append(dst, idle[i]),
                         i - 1, checkBefore)

getOldIdleConnections(idle, ts) ==
    scanOld(idle, <<>>, Len(idle), ts - idlePingTimeout)

\* The number of idle connections closeIdleConnectionsIfCan takes off the
\* end of the slice.
canCloseCnt(total, idleCnt, minA) ==
    LET can == (total - minA) - 1
        idleCan == IF idleCnt \div 10 = 0 THEN 1 ELSE idleCnt \div 10
    IN IF can > idleCan THEN idleCan ELSE can

closeFromIdx(total, idleCnt, minA) ==
    Max(idleCnt - canCloseCnt(total, idleCnt, minA), 0)

\* The ids of the connections of a sequence of Connection.
ConnsOf(s) == {s[i].conn : i \in DOMAIN s}

\* Remove caller c from a queue of callers.
Without(q, c) == SelectSeq(q, LAMBDA x : x # c)

\* A connection after the clock slid by ClockStep seconds.
Slide(connection) ==
    IF connection.conn = 0 THEN connection
    ELSE [connection EXCEPT !.lastUseAt = Max(0, @ - ClockStep)]

SlideSeq(s) == [i \in DOMAIN s |-> Slide(s[i])]

(* ------------------------------- Init ---------------------------------- *)

\* The limits requested through WithPoolLimits(minAlive, maxAlive, maxIdle).
RequestedLimits == {<<1, 1, 1>>, <<0, 2, 1>>}

\* The state NewPoolWithOptions leaves for the requested limits req: the
\* producer, the janitor and (when minAlive > 0) the prewarm goroutine started,
\* nothing created yet.
NewPool(req) ==
    /\ limits = NewPoolWithOptions(req[1], req[2], req[3])
    /\ idleConnections = <<>>
    /\ idleCap = limits.maxIdle
    /\ stats = [TotalCount |-> 0, CreatedCount |-> 0]
    /\ ctxDone = FALSE
    /\ recvq = <<>>
    /\ prod = [pc |-> "top", connection |-> NoConn]
    /\ jan = [pc |-> "select", toPing |-> <<>>, toClose |-> <<>>]
    /\ snc = [t \in {"prewarm", "janitor"} |->
                 [active |-> (t = "prewarm" /\ limits.minAlive > 0),
                  left |-> IF t = "prewarm" THEN limits.minAlive ELSE 0,
                  connections |-> <<>>]]
    /\ caller = [c \in Callers |->
                    [pc |-> "idle", connection |-> NoConn, result |-> "none",
                     pinged |-> FALSE, handed |-> "none",
                     afterClose |-> FALSE]]
    /\ closer = "none"
    /\ now = 0
    /\ tick = FALSE
    /\ connState = [id \in ConnIds |-> "none"]
    /\ sawWaiting = [c \in Callers |-> {}]

\* No call of a library function is in progress, and no MysqlGTIDSet exists.
NoCall == [fn |-> "none", in |-> <<>>, out |-> <<>>, done |-> FALSE]
NoSets == <<>>

Init ==
    /\ \E req \in RequestedLimits : NewPool(req)
    /\ call = NoCall
    /\ gtidSet = NoSets

(* ----------------------- readyConnection (channel) --------------------- *)

\* A send on readyConnection that wakes the goroutine blocked last.
Receiver_Last(q) == q[Len(q)]

\* The goroutine a send on readyConnection wakes: the one blocked longest.
Receiver(q) == Head(q)

\* caller after connection was received from readyConnection by Receiver(recvq).
Received(cal, connection, by) ==
    [cal EXCEPT ![Receiver(recvq)] =
        [@ EXCEPT !.pc = "check", !.connection = connection, !.handed = by]]

\* sawWaiting once caller w has come out of getConnection.
Unblocked(saw, w) == [c \in Callers |-> saw[c] \ {w}]

\* createNewConnection, when connect() succeeds: the next connection, stamped
\* with nowTs(), and CreatedCount++.
createNewConnection(created, cs, ts) ==
    [connection |-> Connection(created + 1, ts),
     created |-> created + 1,
     cs |-> [cs EXCEPT ![created + 1] = "open"]]

(* ----------------------- newConnectionProducer ------------------------- *)

\* One turn of the loop under the lock: take an idle connection, or reserve
\* a slot for a new one unless TotalCount has reached maxAlive (then sleep
\* 10 ms and look again, which changes nothing).
newConnectionProducer_Lock ==
    /\ prod.pc = "top"
    /\ LET r == getIdleConnectionUnsafe(idleConnections)
       IN IF r.connection.conn # 0
          THEN /\ idleConnections' = r.idle
               /\ prod' = [pc |-> "send", connection |-> r.connection]
               /\ UNCHANGED stats
          ELSE /\ stats.TotalCount < maxAlive
               /\ stats' = [stats EXCEPT !.TotalCount = @ + 1]
               /\ prod' = [pc |-> "dial", connection |-> NoConn]
               /\ UNCHANGED idleConnections
    /\ UNCHANGED <<limits, idleCap, ctxDone, recvq, jan, snc, caller, closer,
                   now, tick, connState, sawWaiting, call, gtidSet>>

\* createNewConnection succeeded.
newConnectionProducer_Connected ==
    /\ prod.pc = "dial"
    /\ stats.CreatedCount < MaxConns
    /\ LET r == createNewConnection(stats.CreatedCount, connState, now)
       IN /\ prod' = [pc |-> "send", connection |-> r.connection]
          /\ stats' = [stats EXCEPT !.CreatedCount = r.created]
          /\ connState' = r.cs
    /\ UNCHANGED <<limits, idleConnections, idleCap, ctxDone, recvq, jan, snc,
                   caller, closer, now, tick, sawWaiting, call, gtidSet>>

\* A failed createNewConnection that keeps the slot it reserved.
newConnectionProducer_ConnectFailed_KeepsSlot ==
    /\ prod.pc = "dial"
    /\ prod' = [pc |-> "backoff", connection |-> NoConn]
    /\ UNCHANGED <<limits, idleConnections, idleCap, stats, ctxDone, recvq, jan,
                   snc, caller, closer, now, tick, connState, sawWaiting, call,
                   gtidSet>>

\* createNewConnection failed: give the reserved slot back, start the timer.
newConnectionProducer_ConnectFailed ==
    /\ prod.pc = "dial"
    /\ stats' = [stats EXCEPT !.TotalCount = @ - 1]
    /\ prod' = [pc |-> "backoff", connection |-> NoConn]
    /\ UNCHANGED <<limits, idleConnections, idleCap, ctxDone, recvq, jan, snc,
                   caller, closer, now, tick, connState, sawWaiting, call, gtidSet>>

\* select after a failure: the timer fires, or the pool context is done.
newConnectionProducer_Backoff ==
    /\ prod.pc = "backoff"
    /\ \/ prod' = [prod EXCEPT !.pc = "top"]
       \/ ctxDone /\ prod' = [prod EXCEPT !.pc = "done"]
    /\ UNCHANGED <<limits, idleConnections, idleCap, stats, ctxDone, recvq, jan,
                   snc, caller, closer, now, tick, connState, sawWaiting, call, gtidSet>>

\* select: pool.readyConnection <- connection.
newConnectionProducer_Send ==
    /\ prod.pc = "send"
    /\ recvq # <<>>
    /\ caller' = Received(caller, prod.connection, "producer")
    /\ recvq' = Without(recvq, Receiver(recvq))
    /\ prod' = [pc |-> "top", connection |-> NoConn]
    /\ UNCHANGED <<limits, idleConnections, idleCap, stats, ctxDone, jan, snc,
                   closer, now, tick, connState, sawWaiting, call, gtidSet>>

\* select: <-pool.ctx.Done(): closeConn the held connection and return.
newConnectionProducer_CtxDone ==
    /\ prod.pc = "send"
    /\ ctxDone
    /\ stats' = [stats EXCEPT !.TotalCount = closeConnTotal(@)]
    /\ connState' = closeConnState(connState, prod.connection.conn)
    /\ prod' = [pc |-> "done", connection |-> NoConn]
    /\ UNCHANGED <<limits, idleConnections, idleCap, ctxDone, recvq, jan, snc,
                   caller, closer, now, tick, sawWaiting, call, gtidSet>>

(* ------------------------- startNewConnections ------------------------- *)

Tasks == {"prewarm", "janitor"}

\* One turn of the loop: createNewConnection succeeded, TotalCount++.
startNewConnections_Connected(t) ==
    /\ snc[t].active
    /\ snc[t].left > 0
    /\ stats.CreatedCount < MaxConns
    /\ LET r == createNewConnection(stats.CreatedCount, connState, now)
       IN /\ snc' = [snc EXCEPT ![t].left = @ - 1,
                                ![t].connections = Append(@, r.connection)]
          /\ stats' = [TotalCount |-> stats.TotalCount + 1,
                       CreatedCount |-> r.created]
          /\ connState' = r.cs
    /\ UNCHANGED <<limits, idleConnections, idleCap, ctxDone, recvq, prod, jan,
                   caller, closer, now, tick, sawWaiting, call, gtidSet>>

\* One turn of the loop: createNewConnection failed, which is only logged.
startNewConnections_ConnectFailed(t) ==
    /\ snc[t].active
    /\ snc[t].left > 0
    /\ snc' = [snc EXCEPT ![t].left = @ - 1]
    /\ UNCHANGED <<limits, idleConnections, idleCap, stats, ctxDone, recvq, prod,
                   jan, caller, closer, now, tick, connState, sawWaiting, call, gtidSet>>

\* After the loop: putConnectionUnsafe of every new connection, under one lock.
startNewConnections_Put(t) ==
    /\ snc[t].active
    /\ snc[t].left = 0
    /\ LET r == putAllUnsafe(snc[t].connections, idleConnections, idleCap,
                             stats.TotalCount, connState)
       IN /\ idleConnections' = r.idle
          /\ stats' = [stats EXCEPT !.TotalCount = r.total]
          /\ connState' = r.cs
    /\ snc' = [snc EXCEPT ![t] = [active |-> FALSE, left |-> 0,
                                  connections |-> <<>>]]
    /\ jan' = IF t = "janitor" THEN [jan EXCEPT !.pc = "select"] ELSE jan
    /\ UNCHANGED <<limits, idleCap, ctxDone, recvq, prod, caller, closer, now,
                   tick, sawWaiting, call, gtidSet>>

(* ------------------------------ GetConn -------------------------------- *)

\* The callers blocked on readyConnection right now.
Blocked == {recvq[i] : i \in DOMAIN recvq}

\* A GetConn that pings only after twice idlePingTimeout.
needsPing_Late(connection, ts) == ts - connection.lastUseAt > 2 * idlePingTimeout

\* The connection was last used more than idlePingTimeout ago (GetConn pings it).
needsPing(connection, ts) == ts - connection.lastUseAt > idlePingTimeout

\* A GetConn that does not look at the pool context.
GetConn_IgnoresClosed(c) ==
    /\ caller[c].pc \in {"idle", "loop"}
    /\ caller' = [caller EXCEPT ![c] =
           [pc |-> "getConnection", connection |-> NoConn, result |-> "none",
            pinged |-> FALSE,
            handed |-> IF caller[c].pc = "loop" THEN caller[c].handed ELSE "none",
            afterClose |-> (caller[c].pc = "idle" /\ closer = "returned")]]
    /\ sawWaiting' = [sawWaiting EXCEPT ![c] =
           IF caller[c].pc = "idle" THEN Blocked ELSE @]
    /\ UNCHANGED <<limits, idleConnections, idleCap, stats, ctxDone, recvq, prod,
                   jan, snc, closer, now, tick, connState,
                   call, gtidSet>>

\* Top of the loop of GetConn (a new call, or after a failed ping): fail when
\* the pool context is done, otherwise go on to getConnection.
GetConn(c) ==
    /\ caller[c].pc \in {"idle", "loop"}
    /\ IF ctxDone
       THEN /\ caller' = [caller EXCEPT ![c] =
                   [pc |-> "idle", connection |-> NoConn, result |-> "PoolClosed",
                    pinged |-> FALSE, handed |-> "none",
                    afterClose |-> (caller[c].pc = "idle" /\ closer = "returned")]]
            /\ sawWaiting' = [sawWaiting EXCEPT ![c] = {}]
       ELSE /\ caller' = [caller EXCEPT ![c] =
                   [pc |-> "getConnection", connection |-> NoConn,
                    result |-> "none", pinged |-> FALSE,
                    handed |-> IF caller[c].pc = "loop" THEN caller[c].handed
                               ELSE "none",
                    afterClose |-> FALSE]]
            /\ sawWaiting' = [sawWaiting EXCEPT ![c] =
                   IF caller[c].pc = "idle" THEN Blocked ELSE @]
    /\ UNCHANGED <<limits, idleConnections, idleCap, stats, ctxDone, recvq, prod,
                   jan, snc, closer, now, tick, connState,
                   call, gtidSet>>

\* getConnection, under the lock: take an idle connection if there is one.
getConnection_Lock(c) ==
    /\ caller[c].pc = "getConnection"
    /\ LET r == getIdleConnectionUnsafe(idleConnections)
       IN IF r.connection.conn # 0
          THEN /\ idleConnections' = r.idle
               /\ caller' = [caller EXCEPT ![c].pc = "check",
                                           ![c].connection = r.connection,
                                           ![c].handed = "idle"]
          ELSE /\ caller' = [caller EXCEPT ![c].pc = "select"]
               /\ UNCHANGED idleConnections
    /\ UNCHANGED <<limits, idleCap, stats, ctxDone, recvq, prod, jan, snc, closer,
                   now, tick, connState, sawWaiting, call, gtidSet>>

\* getConnection, after the unlock: block in the select on readyConnection.
getConnection_Select(c) ==
    /\ caller[c].pc = "select"
    /\ caller' = [caller EXCEPT ![c].pc = "recv"]
    /\ recvq' = Append(recvq, c)
    /\ UNCHANGED <<limits, idleConnections, idleCap, stats, ctxDone, prod, jan,
                   snc, closer, now, tick, connState, sawWaiting, call, gtidSet>>

\* A getConnection that returns the context's error and stays a receiver.
getConnection_CtxDone_StaysQueued(c) ==
    /\ caller[c].pc = "recv"
    /\ caller' = [caller EXCEPT ![c] =
           [pc |-> "idle", connection |-> NoConn, result |-> "ctxErr",
            pinged |-> FALSE, handed |-> caller[c].handed,
            afterClose |-> FALSE]]
    /\ sawWaiting' = [Unblocked(sawWaiting, c) EXCEPT ![c] = {}]
    /\ UNCHANGED <<limits, idleConnections, idleCap, stats, ctxDone, recvq, prod,
                   jan, snc, closer, now, tick, connState,
                   call, gtidSet>>

\* getConnection, in the select: <-ctx.Done() of the caller's context.
getConnection_CtxDone(c) ==
    /\ caller[c].pc = "recv"
    /\ caller' = [caller EXCEPT ![c] =
           [pc |-> "idle", connection |-> NoConn, result |-> "ctxErr",
            pinged |-> FALSE, handed |-> caller[c].handed,
            afterClose |-> FALSE]]
    /\ recvq' = Without(recvq, c)
    /\ sawWaiting' = [Unblocked(sawWaiting, c) EXCEPT ![c] = {}]
    /\ UNCHANGED <<limits, idleConnections, idleCap, stats, ctxDone, prod, jan,
                   snc, closer, now, tick, connState,
                   call, gtidSet>>

\* GetConn returns the connection: it is fresh, or old and the ping succeeded.
GetConn_Return(c) ==
    /\ caller[c].pc = "check"
    /\ caller' = [caller EXCEPT ![c].pc = "holding", ![c].result = "ok",
                     ![c].pinged = needsPing(caller[c].connection, now),
                     ![c].handed = "none"]
    /\ sawWaiting' = [Unblocked(sawWaiting, c) EXCEPT ![c] = {}]
    /\ UNCHANGED <<limits, idleConnections, idleCap, stats, ctxDone, recvq, prod,
                   jan, snc, closer, now, tick, connState,
                   call, gtidSet>>

\* GetConn pinged an old connection and the ping failed: closeConn, continue.
GetConn_PingFailed(c) ==
    /\ caller[c].pc = "check"
    /\ needsPing(caller[c].connection, now)
    /\ stats' = [stats EXCEPT !.TotalCount = closeConnTotal(@)]
    /\ connState' = closeConnState(connState, caller[c].connection.conn)
    /\ caller' = [caller EXCEPT ![c].pc = "loop", ![c].connection = NoConn]
    /\ sawWaiting' = Unblocked(sawWaiting, c)
    /\ UNCHANGED <<limits, idleConnections, idleCap, ctxDone, recvq, prod, jan,
                   snc, closer, now, tick,
                   call, gtidSet>>

(* ------------------------- PutConn and DropConn ------------------------ *)

\* A putConnection without the send: always putConnectionUnsafe.
putConnection_NoSend(connection, cal, by) ==
    /\ LET r == putConnectionUnsafe(connection, idleConnections, idleCap,
                                    stats.TotalCount, connState)
       IN /\ idleConnections' = r.idle
          /\ stats' = [stats EXCEPT !.TotalCount = r.total]
          /\ connState' = r.cs
    /\ caller' = cal
    /\ UNCHANGED recvq

\* putConnection under the lock: the non-blocking send to a waiting receiver,
\* or else putConnectionUnsafe.  cal is caller as the putting goroutine leaves it.
putConnection(connection, cal, by) ==
    IF recvq # <<>>
    THEN /\ caller' = Received(cal, connection, by)
         /\ recvq' = Without(recvq, Receiver(recvq))
         /\ UNCHANGED <<idleConnections, stats, connState>>
    ELSE /\ LET r == putConnectionUnsafe(connection, idleConnections, idleCap,
                                         stats.TotalCount, connState)
            IN /\ idleConnections' = r.idle
               /\ stats' = [stats EXCEPT !.TotalCount = r.total]
               /\ connState' = r.cs
         /\ caller' = cal
         /\ UNCHANGED recvq

\* caller once c has given its connection back and holds nothing.
Released(c) ==
    [caller EXCEPT ![c] =
        [pc |-> "idle", connection |-> NoConn, result |-> "none",
         pinged |-> FALSE, handed |-> "none", afterClose |-> FALSE]]

PutConn(c) ==
    /\ caller[c].pc = "holding"
    /\ putConnection(Connection(caller[c].connection.conn, now), Released(c),
                     "PutConn")
    /\ UNCHANGED <<limits, idleCap, ctxDone, prod, jan, snc, closer, now, tick,
                   sawWaiting, call, gtidSet>>

DropConn(c) ==
    /\ caller[c].pc = "holding"
    /\ stats' = [stats EXCEPT !.TotalCount = closeConnTotal(@)]
    /\ connState' = closeConnState(connState, caller[c].connection.conn)
    /\ caller' = Released(c)
    /\ UNCHANGED <<limits, idleConnections, idleCap, ctxDone, recvq, prod, jan,
                   snc, closer, now, tick, sawWaiting, call, gtidSet>>

(* ---------------------- closeOldIdleConnections ------------------------ *)

\* select: <-pool.ctx.Done().
closeOldIdleConnections_CtxDone ==
    /\ jan.pc = "select"
    /\ ctxDone
    /\ jan' = [jan EXCEPT !.pc = "done"]
    /\ UNCHANGED <<limits, idleConnections, idleCap, stats, ctxDone, recvq, prod,
                   snc, caller, closer, now, tick, connState, sawWaiting, call, gtidSet>>

\* select: <-ticker.C, then getOldIdleConnections under the lock.
closeOldIdleConnections_Tick ==
    /\ jan.pc = "select"
    /\ tick
    /\ tick' = FALSE
    /\ LET r == getOldIdleConnections(idleConnections, now)
       IN /\ idleConnections' = r.idle
          /\ jan' = IF r.dst = <<>> THEN jan
                    ELSE [jan EXCEPT !.pc = "recheck", !.toPing = r.dst]
    /\ UNCHANGED <<limits, idleCap, stats, ctxDone, recvq, prod, snc, caller,
                   closer, now, connState, sawWaiting, call, gtidSet>>

\* The connections the workers of recheckConnections have taken off the queue.
workerCnt == 2
InRecheck == 1..Min(workerCnt, Len(jan.toPing))

RemoveAt(s, i) == SubSeq(s, 1, i - 1) \o SubSeq(s, i + 1, Len(s))

\* recheckConnections: a worker's ping succeeded, putConnection.
recheckConnections_Alive(i) ==
    /\ jan.pc = "recheck"
    /\ i \in InRecheck
    /\ putConnection(jan.toPing[i], caller, "recheck")
    /\ jan' = [jan EXCEPT !.toPing = RemoveAt(@, i)]
    /\ UNCHANGED <<limits, idleCap, ctxDone, prod, snc, closer, now, tick,
                   sawWaiting, call, gtidSet>>

\* recheckConnections: a worker's ping failed, closeConn.
recheckConnections_Dead(i) ==
    /\ jan.pc = "recheck"
    /\ i \in InRecheck
    /\ stats' = [stats EXCEPT !.TotalCount = closeConnTotal(@)]
    /\ connState' = closeConnState(connState, jan.toPing[i].conn)
    /\ jan' = [jan EXCEPT !.toPing = RemoveAt(@, i)]
    /\ UNCHANGED <<limits, idleConnections, idleCap, ctxDone, recvq, prod, snc,
                   caller, closer, now, tick, sawWaiting, call, gtidSet>>

\* The workers are done; spawnConnectionsIfNeeded reads TotalCount under the
\* lock and either starts startNewConnections or goes on to
\* closeIdleConnectionsIfCan.
spawnConnectionsIfNeeded ==
    /\ jan.pc = "recheck"
    /\ jan.toPing = <<>>
    /\ LET needSpawnNew == minAlive - stats.TotalCount
       IN IF needSpawnNew <= 0
          THEN /\ jan' = [jan EXCEPT !.pc = "closeIdle"]
               /\ UNCHANGED snc
          ELSE /\ jan' = [jan EXCEPT !.pc = "startNew"]
               /\ snc' = [snc EXCEPT !["janitor"] =
                             [active |-> TRUE,
                              left |-> Min(needSpawnNew, MaxNewConnectionAtOnce),
                              connections |-> <<>>]]
    /\ UNCHANGED <<limits, idleConnections, idleCap, stats, ctxDone, recvq, prod,
                   caller, closer, now, tick, connState, sawWaiting, call, gtidSet>>

\* closeIdleConnectionsIfCan under the lock: cut the surplus off the slice.
closeIdleConnectionsIfCan ==
    /\ jan.pc = "closeIdle"
    /\ LET idleCnt == Len(idleConnections)
           cnt == canCloseCnt(stats.TotalCount, idleCnt, minAlive)
           from == closeFromIdx(stats.TotalCount, idleCnt, minAlive)
       IN IF cnt <= 0
          THEN /\ jan' = [jan EXCEPT !.pc = "select"]
               /\ UNCHANGED idleConnections
          ELSE /\ jan' = [jan EXCEPT !.pc = "closing",
                             !.toClose = SubSeq(idleConnections, from + 1, idleCnt)]
               /\ idleConnections' = SubSeq(idleConnections, 1, from)
    /\ UNCHANGED <<limits, idleCap, stats, ctxDone, recvq, prod, snc, caller,
                   closer, now, tick, connState, sawWaiting, call, gtidSet>>

\* closeIdleConnectionsIfCan after the unlock: closeConn of each one cut off.
closeIdleConnectionsIfCan_Close ==
    /\ jan.pc = "closing"
    /\ IF jan.toClose = <<>>
       THEN /\ jan' = [jan EXCEPT !.pc = "select"]
            /\ UNCHANGED <<stats, connState>>
       ELSE /\ stats' = [stats EXCEPT !.TotalCount = closeConnTotal(@)]
            /\ connState' = closeConnState(connState, Head(jan.toClose).conn)
            /\ jan' = [jan EXCEPT !.toClose = Tail(@)]
    /\ UNCHANGED <<limits, idleConnections, idleCap, ctxDone, recvq, prod, snc,
                   caller, closer, now, tick, sawWaiting, call, gtidSet>>

(* -------------------------------- Close -------------------------------- *)

\* pool.cancel().
Close_Cancel ==
    /\ closer = "none"
    /\ closer' = "wait"
    /\ ctxDone' = TRUE
    /\ UNCHANGED <<limits, idleConnections, idleCap, stats, recvq, prod, jan, snc,
                   caller, now, tick, connState, sawWaiting, call, gtidSet>>

\* A Close that lets go of the idle connections without closing them.
closeAll_KeepsOpen(cs, idle) == cs

\* The states of the connections once every one of the slice is closed.
closeAll(cs, idle) ==
    [id \in DOMAIN cs |-> IF id \in ConnsOf(idle) THEN "closed" ELSE cs[id]]

\* A Close that waits for the producer only.
wgDone_ProducerOnly == prod.pc = "done"

\* pool.wg.Wait() is over: both goroutines are done.
wgDone == prod.pc = "done" /\ jan.pc = "done"

\* After pool.wg.Wait(): close every idle connection under the lock, and
\* leave the slice nil.
Close_Return ==
    /\ closer = "wait"
    /\ wgDone
    /\ stats' = [stats EXCEPT !.TotalCount = @ - Len(idleConnections)]
    /\ connState' = closeAll(connState, idleConnections)
    /\ idleConnections' = <<>>
    /\ idleCap' = 0
    /\ closer' = "returned"
    /\ UNCHANGED <<limits, ctxDone, recvq, prod, jan, snc, caller, now, tick,
                   sawWaiting, call, gtidSet>>

(* -------------------------------- time --------------------------------- *)

\* ClockStep seconds pass and the ticker has fired.  Once the clock is at
\* MaxTime it is kept there
\* and every timestamp is moved back instead, which leaves each difference
\* now - lastUseAt as it would be, up to MaxTime.
Tick ==
    /\ tick' = TRUE
    /\ IF now + ClockStep <= MaxTime
       THEN /\ now' = now + ClockStep
            /\ UNCHANGED <<idleConnections, prod, jan, snc, caller>>
       ELSE /\ now' = now
            /\ idleConnections' = SlideSeq(idleConnections)
            /\ prod' = [prod EXCEPT !.connection = Slide(@)]
            /\ jan' = [jan EXCEPT !.toPing = SlideSeq(@), !.toClose = SlideSeq(@)]
            /\ snc' = [t \in Tasks |->
                          [snc[t] EXCEPT !.connections = SlideSeq(@)]]
            /\ caller' = [c \in Callers |->
                             [caller[c] EXCEPT !.connection = Slide(@)]]
    /\ UNCHANGED <<limits, idleCap, stats, ctxDone, recvq, closer, connState,
                   sawWaiting, call, gtidSet>>

(* ----------------------------- specification --------------------------- *)

Next ==
    \/ newConnectionProducer_Lock
    \/ newConnectionProducer_Connected
    \/ newConnectionProducer_ConnectFailed
    \/ newConnectionProducer_Backoff
    \/ newConnectionProducer_Send
    \/ newConnectionProducer_CtxDone
    \/ \E t \in Tasks : startNewConnections_Connected(t)
    \/ \E t \in Tasks : startNewConnections_ConnectFailed(t)
    \/ \E t \in Tasks : startNewConnections_Put(t)
    \/ \E c \in Callers : GetConn(c)
    \/ \E c \in Callers : getConnection_Lock(c)
    \/ \E c \in Callers : getConnection_Select(c)
    \/ \E c \in Callers : getConnection_CtxDone(c)
    \/ \E c \in Callers : GetConn_Return(c)
    \/ \E c \in Callers : GetConn_PingFailed(c)
    \/ \E c \in Callers : PutConn(c)
    \/ \E c \in Callers : DropConn(c)
    \/ closeOldIdleConnections_CtxDone
    \/ closeOldIdleConnections_Tick
    \/ \E i \in 1..workerCnt : recheckConnections_Alive(i)
    \/ \E i \in 1..workerCnt : recheckConnections_Dead(i)
    \/ spawnConnectionsIfNeeded
    \/ closeIdleConnectionsIfCan
    \/ closeIdleConnectionsIfCan_Close
    \/ Close_Cancel
    \/ Close_Return
    \/ Tick

Spec == Init /\ [][Next]_vars

(* ------------------- a pool whose connect() succeeds ------------------- *)

RequestedLimitsLive == {<<2, 2, 2>>, <<0, 2, 1>>}

InitLive ==
    /\ \E req \in RequestedLimitsLive : NewPool(req)
    /\ call = NoCall
    /\ gtidSet = NoSets

\* The steps of the goroutines of the pool. connect() never fails here, so
\* the producer never backs off.
ProducerStep ==
    \/ newConnectionProducer_Lock
    \/ newConnectionProducer_Connected
    \/ newConnectionProducer_Send
    \/ newConnectionProducer_CtxDone

PrewarmStep ==
    \/ startNewConnections_Connected("prewarm")
    \/ startNewConnections_Put("prewarm")

JanitorStep ==
    \/ closeOldIdleConnections_CtxDone
    \/ closeOldIdleConnections_Tick
    \/ \E i \in 1..workerCnt : recheckConnections_Alive(i)
    \/ \E i \in 1..workerCnt : recheckConnections_Dead(i)
    \/ spawnConnectionsIfNeeded
    \/ startNewConnections_Connected("janitor")
    \/ startNewConnections_Put("janitor")
    \/ closeIdleConnectionsIfCan
    \/ closeIdleConnectionsIfCan_Close

\* The steps of a call of GetConn, PutConn or DropConn once it has begun,
\* other than the cancellation of the caller's context.
CallStep(c) ==
    \/ caller[c].pc = "loop" /\ GetConn(c)
    \/ getConnection_Lock(c)
    \/ getConnection_Select(c)
    \/ GetConn_Return(c)
    \/ GetConn_PingFailed(c)

\* What callers do of their own accord.
CallerStep ==
    \/ \E c \in Callers : GetConn(c)
    \/ \E c \in Callers : getConnection_CtxDone(c)
    \/ \E c \in Callers : PutConn(c)
    \/ \E c \in Callers : DropConn(c)
    \/ \E c \in Callers : CallStep(c)

NextLive ==
    \/ ProducerStep
    \/ PrewarmStep
    \/ JanitorStep
    \/ CallerStep
    \/ Close_Cancel
    \/ Close_Return
    \/ Tick

\* Every goroutine that can take a step eventually does, and time passes.
Fairness ==
    /\ WF_vars(ProducerStep)
    /\ WF_vars(PrewarmStep)
    /\ WF_vars(JanitorStep)
    /\ WF_vars(Close_Return)
    /\ WF_vars(Tick)
    /\ \A c \in Callers : WF_vars(CallStep(c))

LiveSpec == InitLive /\ [][NextLive]_vars /\ Fairness

(* ------------------ NewPoolWithOptions and its limits ------------------ *)

MaxRequest == 3

\* What WithPoolLimits can ask for: any int, negative ones included.
Requests == (-1)..MaxRequest

\* A call that has its arguments and has not run yet.
Called(fn, in) == [fn |-> fn, in |-> in, out |-> <<>>, done |-> FALSE]

\* A Pool with every limit 0 and nothing started: the background of the
\* calls that do not touch a pool.
ZeroPool == NewPool(<<0, 0, 0>>)

InitLimits ==
    /\ ZeroPool
    /\ \E req \in Requests \X Requests \X Requests :
           call = Called("NewPoolWithOptions", req)
    /\ gtidSet = NoSets

\* NewPoolWithOptions clamps the requested limits and stores them in the Pool.
NewPoolWithOptions_Call ==
    /\ call.fn = "NewPoolWithOptions"
    /\ ~call.done
    /\ limits' = NewPoolWithOptions(call.in[1], call.in[2], call.in[3])
    /\ call' = [call EXCEPT !.out = limits', !.done = TRUE]
    /\ UNCHANGED <<idleConnections, idleCap, stats, ctxDone, recvq, prod, jan,
                   snc, caller, closer, now, tick, connState, sawWaiting,
                   gtidSet>>

NextLimits == NewPoolWithOptions_Call

LimitsSpec == InitLimits /\ [][NextLimits]_vars

(* --------------------------- text and numbers -------------------------- *)

\* A string is the sequence of its characters.
Digits == <<"0", "1", "2", "3", "4", "5", "6", "7", "8", "9">>

RECURSIVE FormatUint(_)
\* The decimal digits of n >= 0.
FormatUint(n) ==
    IF n < 10 THEN <<Digits[n + 1]>>
    ELSE FormatUint(n \div 10) \o <<Digits[(n % 10) + 1]>>

\* fmt.Sprintf("%d", n).
FormatInt(n) == IF n < 0 THEN <<"-">> \o FormatUint(-n) ELSE FormatUint(n)

\* The value of a decimal digit, -1 for any other character.
DigitValue(c) ==
    IF \E d \in 1..10 : Digits[d] = c
    THEN (CHOOSE d \in 1..10 : Digits[d] = c) - 1
    ELSE -1

RECURSIVE ParseUint(_, _)
\* The digits of str read after acc; -1 when a character is not a digit.
ParseUint(str, acc) ==
    IF str = <<>> THEN acc
    ELSE IF DigitValue(Head(str)) < 0 THEN -1
    ELSE ParseUint(Tail(str), 10 * acc + DigitValue(Head(str)))

\* strconv.ParseInt(str, 10, 64): an optional sign, then one digit or more.
ParseInt(str) ==
    LET signed == str # <<>> /\ Head(str) \in {"+", "-"}
        body == IF signed THEN Tail(str) ELSE str
        v == ParseUint(body, 0)
    IN IF body = <<>> \/ v < 0
       THEN [err |-> TRUE, v |-> 0]
       ELSE [err |-> FALSE,
             v |-> IF signed /\ Head(str) = "-" THEN -v ELSE v]

RECURSIVE Split(_, _)
\* strings.Split(str, sep), sep one character: the pieces between the seps.
Split(str, sep) ==
    IF \A k \in DOMAIN str : str[k] # sep THEN <<str>>
    ELSE LET k == CHOOSE j \in DOMAIN str :
                     str[j] = sep /\ \A h \in 1..(j - 1) : str[h] # sep
         IN <<SubSeq(str, 1, k - 1)>> \o Split(SubSeq(str, k + 1, Len(str)), sep)

RECURSIVE Join(_, _)
\* The strings of strs with sep between them.
Join(strs, sep) ==
    IF strs = <<>> THEN <<>>
    ELSE IF Len(strs) = 1 THEN strs[1]
    ELSE strs[1] \o <<sep>> \o Join(Tail(strs), sep)

(* ------------------------------ Interval ------------------------------- *)

Interval(start, stop) == [Start |-> start, Stop |-> stop]

\* An Interval.String that prints Stop itself as the end.
Interval_String_HalfOpen(i) ==
    IF i.Stop = i.Start + 1 THEN FormatInt(i.Start)
    ELSE FormatInt(i.Start) \o <<"-">> \o FormatInt(i.Stop)

\* Interval.String: "n", or "n-m" with m the last GNO of the interval.
Interval_String(i) ==
    IF i.Stop = i.Start + 1 THEN FormatInt(i.Start)
    ELSE FormatInt(i.Start) \o <<"-">> \o FormatInt(i.Stop - 1)

\* The last check of parseInterval: Stop <= Start is an error.
CheckedInterval(r) ==
    IF r.err THEN r ELSE [err |-> r.i.Stop <= r.i.Start, i |-> r.i]

\* parseInterval of "n": first is what ParseInt returned for n.
SingleInterval(first) ==
    [err |-> first.err, i |-> Interval(first.v, first.v + 1)]

\* parseInterval of "n-m": first and second are what ParseInt returned.
PairInterval(first, second) ==
    IF first.err THEN [err |-> TRUE, i |-> Interval(first.v, 0)]
    ELSE [err |-> second.err, i |-> Interval(first.v, second.v + 1)]

\* parseInterval of the parts p that "-" separates.
IntervalOfParts(p) ==
    IF Len(p) = 1 THEN CheckedInterval(SingleInterval(ParseInt(p[1])))
    ELSE IF Len(p) = 2
    THEN CheckedInterval(PairInterval(ParseInt(p[1]), ParseInt(p[2])))
    ELSE [err |-> TRUE, i |-> Interval(0, 0)]

\* parseInterval: [err, i].
parseInterval(str) == IntervalOfParts(Split(str, "-"))

(* ---------------------------- IntervalSlice ---------------------------- *)

\* IntervalSlice.Less, of two intervals.
Less(a, b) ==
    IF a.Start < b.Start THEN TRUE
    ELSE IF a.Start > b.Start THEN FALSE
    ELSE a.Stop < b.Stop

RECURSIVE SortInto(_, _)
\* sorted, with the intervals of s put in their places.
SortInto(s, sorted) ==
    IF s = <<>> THEN sorted
    ELSE LET x == Head(s)
             k == Cardinality({j \in DOMAIN sorted : ~Less(x, sorted[j])})
         IN SortInto(Tail(s),
                     SubSeq(sorted, 1, k) \o <<x>> \o
                     SubSeq(sorted, k + 1, Len(sorted)))

\* IntervalSlice.Sort: by Start, then by Stop.
Sort(s) == SortInto(s, <<>>)

\* max and min of two int64.
max(a, b) == IF a > b THEN a ELSE b
min(a, b) == IF a < b THEN a ELSE b

RECURSIVE NormalizeLoop_Strict(_, _, _)
\* A loop of Normalize that merges overlapping intervals only, not touching ones.
NormalizeLoop_Strict(s, i, n) ==
    IF i > Len(s) THEN n
    ELSE LET last == n[Len(n)]
         IN IF s[i].Start >= last.Stop
            THEN NormalizeLoop_Strict(s, i + 1, Append(n, s[i]))
            ELSE NormalizeLoop_Strict(s, i + 1,
                     [n EXCEPT ![Len(n)] =
                         Interval(last.Start,
                                  IF last.Stop > s[i].Stop THEN last.Stop
                                  ELSE s[i].Stop)])

RECURSIVE NormalizeLoop(_, _, _)
\* The loop of Normalize over the sorted s, from index i, with n built so far.
NormalizeLoop(s, i, n) ==
    IF i > Len(s) THEN n
    ELSE LET last == n[Len(n)]
         IN IF s[i].Start > last.Stop
            THEN NormalizeLoop(s, i + 1, Append(n, s[i]))
            ELSE NormalizeLoop(s, i + 1,
                     [n EXCEPT ![Len(n)] =
                         Interval(last.Start,
                                  IF last.Stop > s[i].Stop THEN last.Stop
                                  ELSE s[i].Stop)])

\* IntervalSlice.Normalize.
Normalize(s) ==
    IF Len(s) = 0 THEN <<>>
    ELSE LET sorted == Sort(s)
         IN NormalizeLoop(sorted, 2, <<sorted[1]>>)

RECURSIVE ContainLoop(_, _, _, _)
\* The loops of Contain: sub from index i, s from index j.
ContainLoop(s, sub, i, j) ==
    IF i > Len(sub) THEN TRUE
    ELSE IF j <= Len(s) /\ sub[i].Start > s[j].Stop
    THEN ContainLoop(s, sub, i, j + 1)
    ELSE IF j > Len(s) THEN FALSE
    ELSE IF sub[i].Start < s[j].Start \/ sub[i].Stop > s[j].Stop THEN FALSE
    ELSE ContainLoop(s, sub, i + 1, j)

\* A Contain that looks at the starts only.
Contain_StartsOnly(s, sub) ==
    \A i \in DOMAIN sub :
        \E j \in DOMAIN s : s[j].Start <= sub[i].Start /\ sub[i].Start < s[j].Stop

\* IntervalSlice.Contain.
Contain(s, sub) == ContainLoop(s, sub, 1, 1)

\* IntervalSlice.Equal.
Equal(s, o) ==
    /\ Len(s) = Len(o)
    /\ \A i \in DOMAIN s : s[i].Start = o[i].Start /\ s[i].Stop = o[i].Stop

RECURSIVE MinusLoop(_, _, _, _, _, _)
\* The loop of MinusInterval: s.Intervals from index i, the subtrahends in
\* from index j, the minuend of the last turn, and n built so far.  Past the
\* end of in the subtrahend is Interval{math.MaxInt64, math.MaxInt64}, which
\* no Stop exceeds: the first branch is taken.
MinusLoop(s, in, i, j, minuend, n) ==
    IF i > Len(s) THEN n
    ELSE LET m == IF minuend.Stop # s[i].Stop THEN s[i] ELSE minuend
             atEnd == j > Len(in)
             sub == IF atEnd THEN m ELSE in[j]
         IN IF atEnd \/ m.Stop <= sub.Start
            THEN MinusLoop(s, in, i + 1, j, m, Append(n, m))
            ELSE IF m.Start >= sub.Stop
            THEN MinusLoop(s, in, i, j + 1, m, n)
            ELSE IF m.Start < sub.Start /\ m.Stop <= sub.Stop
            THEN MinusLoop(s, in, i + 1, j, m,
                           Append(n, Interval(m.Start, sub.Start)))
            ELSE IF m.Start >= sub.Start /\ m.Stop > sub.Stop
            THEN MinusLoop(s, in, i, j + 1, Interval(sub.Stop, m.Stop), n)
            ELSE IF m.Start >= sub.Start /\ m.Stop <= sub.Stop
            THEN MinusLoop(s, in, i + 1, j, m, n)
            ELSE MinusLoop(s, in, i, j + 1, Interval(sub.Stop, m.Stop),
                           Append(n, Interval(m.Start, sub.Start)))

\* UUIDSet.MinusInterval: the Intervals it leaves in the UUIDSet.
MinusInterval(s, in) ==
    Normalize(MinusLoop(s, Normalize(in), 1, 1, Interval(0, 0), <<>>))

(* ----------------------- calls on intervals ---------------------------- *)

MaxGno == 11
MaxPoint == 4
MaxLen == 3

\* The numbers that are printed and parsed, and the ones the algebra is
\* exercised on: int64 has negative values too.
Gnos == (-2)..MaxGno
Points == (-1)..MaxPoint

\* The intervals with Stop > Start over a set of numbers.
IntervalsOver(S) ==
    {Interval(ab[1], ab[2]) : ab \in {x \in S \X S : x[2] > x[1]}}

\* The slices of at most MaxLen intervals, in any order.
Slices ==
    UNION {[1..n -> IntervalsOver(Points)] : n \in 0..MaxLen}

\* s is normalized: sorted by Start, disjoint, and no two intervals touch.
IsNormalized(s) ==
    /\ \A k \in DOMAIN s : s[k].Stop > s[k].Start
    /\ \A k \in 2..Len(s) : s[k].Start > s[k - 1].Stop

NormalizedSlices == {s \in Slices : IsNormalized(s)}

\* The numbers that the intervals of s cover.
Covered(s) ==
    {p \in Points : \E k \in DOMAIN s : s[k].Start <= p /\ p < s[k].Stop}

InitInterval ==
    /\ ZeroPool
    /\ gtidSet = NoSets
    /\ \/ \E i \in IntervalsOver(Gnos) : call = Called("Interval.String", i)
       \/ \E s \in Slices : call = Called("Normalize", s)
       \/ \E a \in NormalizedSlices, b \in NormalizedSlices :
              call = Called("MinusInterval", <<a, b>>)
       \/ \E a \in NormalizedSlices, b \in NormalizedSlices :
              call = Called("Contain", <<a, b>>)

\* What a call leaves alone: the pool and the GTID set.
NoPool ==
    UNCHANGED <<limits, idleConnections, idleCap, stats, ctxDone, recvq, prod,
                jan, snc, caller, closer, now, tick, connState, sawWaiting>>

\* The call returns out.
Returns(out) == call' = [call EXCEPT !.out = out, !.done = TRUE]

Interval_String_Call ==
    /\ call.fn = "Interval.String"
    /\ ~call.done
    /\ Returns(Interval_String(call.in))
    /\ NoPool
    /\ UNCHANGED gtidSet

\* parseInterval of the string that Interval.String returned.
parseInterval_Call ==
    /\ call.fn = "Interval.String"
    /\ call.done
    /\ call' = [fn |-> "parseInterval",
                in |-> [str |-> call.out, printed |-> call.in],
                out |-> parseInterval(call.out),
                done |-> TRUE]
    /\ NoPool
    /\ UNCHANGED gtidSet

Normalize_Call ==
    /\ call.fn = "Normalize"
    /\ ~call.done
    /\ Returns(Normalize(call.in))
    /\ NoPool
    /\ UNCHANGED gtidSet

MinusInterval_Call ==
    /\ call.fn = "MinusInterval"
    /\ ~call.done
    /\ Returns(MinusInterval(call.in[1], call.in[2]))
    /\ NoPool
    /\ UNCHANGED gtidSet

Contain_Call ==
    /\ call.fn = "Contain"
    /\ ~call.done
    /\ Returns(Contain(call.in[1], call.in[2]))
    /\ NoPool
    /\ UNCHANGED gtidSet

NextInterval ==
    \/ Interval_String_Call
    \/ parseInterval_Call
    \/ Normalize_Call
    \/ MinusInterval_Call
    \/ Contain_Call

IntervalSpec == InitInterval /\ [][NextInterval]_vars

(* --------------------------- bytes and words --------------------------- *)

\* A byte is a number of 0..255.  A 64-bit word is the sequence of its 8
\* bytes, the least significant first (binary.LittleEndian), so that every
\* operation on it keeps the width of the word.
Huge == 65536

RECURSIVE LittleEndian(_, _)
\* The n low bytes of v >= 0.
LittleEndian(v, n) ==
    IF n = 0 THEN <<>>
    ELSE <<v % 256>> \o LittleEndian(v \div 256, n - 1)

\* binary.Write of a uint64.
PutUint64(v) == LittleEndian(v, 8)

\* A PutInt64 that writes the magnitude of a negative number.
PutInt64_Magnitude(v) == LittleEndian(IF v < 0 THEN -v ELSE v, 8)

\* binary.Write of an int64: two's complement.
PutInt64(v) ==
    IF v >= 0 THEN LittleEndian(v, 8)
    ELSE [k \in 1..8 |-> 255 - LittleEndian(-v - 1, 8)[k]]

\* The two low bytes of a word, as a number.
Uint16(w) == w[1] + 256 * w[2]

\* binary.LittleEndian.Uint64 as a count: the number itself below Huge,
\* Huge for every larger one.
Uint64(w) == IF \E k \in 3..8 : w[k] # 0 THEN Huge ELSE Uint16(w)

\* int64(binary.LittleEndian.Uint64(w)) and int(...) on a 64-bit platform:
\* the signed number itself between -Huge and Huge, -Huge or Huge beyond.
\* The code compares these numbers with lengths and indices only.
Int64(w) ==
    IF w[8] >= 128
    THEN IF \A k \in 3..8 : w[k] = 255 THEN Uint16(w) - Huge ELSE -Huge
    ELSE Uint64(w)

\* 16*n in 64 bits: the word shifted left by four bits, the top four lost.
Mul16(w) ==
    [k \in 1..8 |-> (w[k] % 16) * 16 + (IF k = 1 THEN 0 ELSE w[k - 1] \div 16)]

RECURSIVE AddBytes(_, _)
\* w + c in as many bytes as w has, the last carry lost.
AddBytes(w, c) ==
    IF w = <<>> THEN <<>>
    ELSE <<(Head(w) + c) % 256>> \o AddBytes(Tail(w), (Head(w) + c) \div 256)

(* -------------------------------- uuid --------------------------------- *)

\* github.com/google/uuid: a UUID is 16 bytes.
HexDigits ==
    <<"0", "1", "2", "3", "4", "5", "6", "7", "8", "9",
      "a", "b", "c", "d", "e", "f">>

UpperHexDigits ==
    <<"0", "1", "2", "3", "4", "5", "6", "7", "8", "9",
      "A", "B", "C", "D", "E", "F">>

HexByte(b) == <<HexDigits[(b \div 16) + 1], HexDigits[(b % 16) + 1]>>

RECURSIVE HexBytes(_)
HexBytes(bs) == IF bs = <<>> THEN <<>> ELSE HexByte(Head(bs)) \o HexBytes(Tail(bs))

\* UUID.String: xxxxxxxx-xxxx-xxxx-xxxx-xxxxxxxxxxxx, in lower case.
UUID_String(u) ==
    HexBytes(SubSeq(u, 1, 4)) \o <<"-">> \o HexBytes(SubSeq(u, 5, 6)) \o <<"-">> \o
    HexBytes(SubSeq(u, 7, 8)) \o <<"-">> \o HexBytes(SubSeq(u, 9, 10)) \o <<"-">> \o
    HexBytes(SubSeq(u, 11, 16))

\* The value of a hexadecimal digit of either case, -1 for another character.
HexValue(c) ==
    IF \E d \in 1..16 : HexDigits[d] = c
    THEN (CHOOSE d \in 1..16 : HexDigits[d] = c) - 1
    ELSE IF \E d \in 1..16 : UpperHexDigits[d] = c
    THEN (CHOOSE d \in 1..16 : UpperHexDigits[d] = c) - 1
    ELSE -1

\* uuid.Parse of the 36 characters of the standard form: [err, u].
ParseStandard(str) ==
    LET at == <<1, 3, 5, 7, 10, 12, 15, 17, 20, 22, 25, 27, 29, 31, 33, 35>>
        ok == /\ \A k \in {9, 14, 19, 24} : str[k] = "-"
              /\ \A b \in 1..16 :
                     HexValue(str[at[b]]) >= 0 /\ HexValue(str[at[b] + 1]) >= 0
    IN IF ok
       THEN [err |-> FALSE,
             u |-> [b \in 1..16 |->
                       16 * HexValue(str[at[b]]) + HexValue(str[at[b] + 1])]]
       ELSE [err |-> TRUE, u |-> <<>>]

\* uuid.Parse: the standard form, the same in braces, or 32 hexadecimal
\* digits (the urn:uuid: form holds a colon and is never passed whole).
UUID_Parse(str) ==
    IF Len(str) = 36 THEN ParseStandard(str)
    ELSE IF Len(str) = 38 THEN ParseStandard(SubSeq(str, 2, 37))
    ELSE IF Len(str) = 32
    THEN IF \A k \in 1..32 : HexValue(str[k]) >= 0
         THEN [err |-> FALSE,
               u |-> [b \in 1..16 |->
                         16 * HexValue(str[2 * b - 1]) + HexValue(str[2 * b])]]
         ELSE [err |-> TRUE, u |-> <<>>]
    ELSE [err |-> TRUE, u |-> <<>>]

(* ------------------------------- UUIDSet ------------------------------- *)

\* A UUIDSet is [SID, Intervals]; a nil IntervalSlice and an empty one are
\* both <<>> (the code tells them apart only after MinusInterval, whose
\* Normalize returns nil exactly for the empty slice).
UUIDSet(sid, in) == [SID |-> sid, Intervals |-> in]

RECURSIVE TrimLeft(_)
TrimLeft(str) ==
    IF str # <<>> /\ Head(str) = " " THEN TrimLeft(Tail(str)) ELSE str

RECURSIVE TrimRight(_)
TrimRight(str) ==
    IF str # <<>> /\ str[Len(str)] = " "
    THEN TrimRight(SubSeq(str, 1, Len(str) - 1))
    ELSE str

\* strings.TrimSpace, of spaces.
TrimSpace(str) == TrimRight(TrimLeft(str))

\* NewUUIDSet.
NewUUIDSet(sid, in) == UUIDSet(sid, Normalize(in))

\* The UUIDSet of a parsed SID and parsed intervals, or the error of one.
UUIDSetOfParsed(sid, ins) ==
    IF sid.err \/ \E k \in DOMAIN ins : ins[k].err
    THEN [err |-> TRUE, set |-> UUIDSet(<<>>, <<>>)]
    ELSE [err |-> FALSE,
          set |-> UUIDSet(sid.u, Normalize([k \in DOMAIN ins |-> ins[k].i]))]

\* ParseUUIDSet of the fields sep that ":" separates.
UUIDSetOfFields(sep) ==
    IF Len(sep) < 2 THEN [err |-> TRUE, set |-> UUIDSet(<<>>, <<>>)]
    ELSE UUIDSetOfParsed(UUID_Parse(sep[1]),
                         [k \in 1..(Len(sep) - 1) |-> parseInterval(sep[k + 1])])

\* ParseUUIDSet: [err, set].
ParseUUIDSet(str) == UUIDSetOfFields(Split(TrimSpace(str), ":"))

RECURSIVE IntervalsText(_)
\* ":" and the interval, for every interval.
IntervalsText(in) ==
    IF in = <<>> THEN <<>>
    ELSE <<":">> \o Interval_String(Head(in)) \o IntervalsText(Tail(in))

\* UUIDSet.Bytes and UUIDSet.String: the same characters.
UUIDSet_Bytes(s) == UUID_String(s.SID) \o IntervalsText(s.Intervals)
UUIDSet_String(s) == UUIDSet_Bytes(s)

\* UUIDSet.AddInterval: the Intervals it leaves.
AddInterval(s, in) == Normalize(s.Intervals \o in)

RECURSIVE EncodeIntervals(_)
EncodeIntervals(in) ==
    IF in = <<>> THEN <<>>
    ELSE PutInt64(Head(in).Start) \o PutInt64(Head(in).Stop) \o
         EncodeIntervals(Tail(in))

\* UUIDSet.encode and UUIDSet.Encode: SID, the count, the intervals.
UUIDSet_encode(s) ==
    s.SID \o PutInt64(Len(s.Intervals)) \o EncodeIntervals(s.Intervals)

RECURSIVE DecodeIntervals(_, _, _)
\* The n intervals read from data after pos bytes.
DecodeIntervals(data, pos, n) ==
    IF n = 0 THEN <<>>
    ELSE <<Interval(Int64(SubSeq(data, pos + 1, pos + 8)),
                    Int64(SubSeq(data, pos + 9, pos + 16)))>> \o
         DecodeIntervals(data, pos + 16, n - 1)

\* The outcomes of a decoding.
Failed == [err |-> TRUE, panic |-> FALSE, pos |-> 0, set |-> UUIDSet(<<>>, <<>>)]
Panicked == [err |-> FALSE, panic |-> TRUE, pos |-> 0, set |-> UUIDSet(<<>>, <<>>)]

\* UUIDSet.decode: [err, panic, pos, set].  The length is checked against
\* int(16*n)+pos computed in 64 bits; make([]Interval, 0, n) panics for a
\* negative n and for one whose 16*n bytes exceed the address space, and a
\* count that passes the check without being the true count of the buffer is
\* negative or at least 2^59.
UUIDSet_decode(data) ==
    IF Len(data) < 24 THEN Failed
    ELSE LET word == SubSeq(data, 17, 24)
             n == Int64(word)
             must == Int64(AddBytes(Mul16(word), 24))
         IN IF Len(data) < must THEN Failed
            ELSE IF n < 0 \/ n >= Huge THEN Panicked
            ELSE [err |-> FALSE, panic |-> FALSE, pos |-> 24 + 16 * n,
                  set |-> UUIDSet(SubSeq(data, 1, 16),
                                  DecodeIntervals(data, 24, n))]

\* UUIDSet.Decode: all of data must be read.
UUIDSet_Decode(data) ==
    LET r == UUIDSet_decode(data)
    IN IF r.panic THEN r
       ELSE IF r.pos # Len(data) THEN Failed
       ELSE r

(* ----------------------------- MysqlGTIDSet ---------------------------- *)

\* MysqlGTIDSet.Sets: a map from SID.String() to the UUIDSet, here a function
\* on the keys present.
EmptySets == [key \in {} |-> UUIDSet(<<>>, <<>>)]

\* The map with key set to value.
MapPut(sets, key, value) ==
    [k \in DOMAIN sets \cup {key} |-> IF k = key THEN value ELSE sets[k]]

\* The map without key.
MapDelete(sets, key) == [k \in DOMAIN sets \ {key} |-> sets[k]]

\* MysqlGTIDSet.AddSet.
AddSet(sets, set) ==
    LET sid == UUID_String(set.SID)
    IN IF sid \in DOMAIN sets
       THEN [sets EXCEPT ![sid].Intervals = AddInterval(sets[sid], set.Intervals)]
       ELSE MapPut(sets, sid, set)

\* MysqlGTIDSet.MinusSet.
MinusSet(sets, set) ==
    LET sid == UUID_String(set.SID)
        left == MinusInterval(sets[sid].Intervals, set.Intervals)
    IN IF sid \in DOMAIN sets
       THEN IF left = <<>> THEN MapDelete(sets, sid)
            ELSE [sets EXCEPT ![sid].Intervals = left]
       ELSE sets

RECURSIVE InsertLoop(_, _, _)
\* The loop of InsertInterval from index i (of the code, counted from 0),
\* with count merges made: [s, i, count] when it ends.
InsertLoop(s, i, count) ==
    IF i <= 0 THEN [s |-> s, i |-> i, count |-> count]
    ELSE LET cur == s[i + 1]
             prev == s[i]
         IN IF cur.Stop < prev.Start
            THEN InsertLoop([s EXCEPT ![i + 1] = prev, ![i] = cur], i - 1, count)
            ELSE IF cur.Start > prev.Stop
            THEN [s |-> s, i |-> i, count |-> count]
            ELSE InsertLoop([s EXCEPT ![i] = Interval(min(prev.Start, cur.Start),
                                                        max(prev.Stop, cur.Stop))],
                            i - 1, count + 1)

\* An InsertInterval that keeps the merged-away intervals in the slice.
InsertInterval_NoTruncate(s, interval) ==
    InsertLoop(Append(s, interval), Len(s), 0).s

\* IntervalSlice.InsertInterval: the slice it leaves.
InsertInterval(s, interval) ==
    LET total == Len(s) + 1
        r == InsertLoop(Append(s, interval), total - 1, 0)
        i == r.i + 1
        copied == IF i + r.count < total
                  THEN [k \in 1..total |->
                           IF k > i /\ k + r.count <= total
                           THEN r.s[k + r.count] ELSE r.s[k]]
                  ELSE r.s
    IN IF r.count > 0 THEN SubSeq(copied, 1, total - r.count) ELSE r.s

\* MysqlGTIDSet.AddGTID.
AddGTID(sets, uuid, gno) ==
    LET sid == UUID_String(uuid)
    IN IF sid \in DOMAIN sets
       THEN [sets EXCEPT ![sid].Intervals =
                 InsertInterval(sets[sid].Intervals, Interval(gno, gno + 1))]
       ELSE MapPut(sets, sid, UUIDSet(uuid, <<Interval(gno, gno + 1)>>))

RECURSIVE AddSets(_, _)
\* AddSet of every UUIDSet of the sequence sp, in order.
AddSets(sets, sp) ==
    IF sp = <<>> THEN sets ELSE AddSets(AddSet(sets, Head(sp)), Tail(sp))

\* The set of the parsed UUID sets, or the error of one.
SetsOfParsed(parsed) ==
    IF \E k \in DOMAIN parsed : parsed[k].err
    THEN [err |-> TRUE, sets |-> EmptySets]
    ELSE [err |-> FALSE,
          sets |-> AddSets(EmptySets, [k \in DOMAIN parsed |-> parsed[k].set])]

\* ParseMysqlGTIDSet of the pieces sp that "," separates.
SetsOfPieces(sp) == SetsOfParsed([k \in DOMAIN sp |-> ParseUUIDSet(sp[k])])

\* ParseMysqlGTIDSet: [err, sets].
ParseMysqlGTIDSet(str) ==
    IF str = <<>> THEN [err |-> FALSE, sets |-> EmptySets]
    ELSE SetsOfPieces(Split(str, ","))

RECURSIVE AddAll(_, _)
\* AddSet of every UUIDSet of the map other, whose keys differ: the order
\* of the range loop does not matter.
AddAll(sets, other) ==
    IF DOMAIN other = {} THEN sets
    ELSE LET key == CHOOSE k \in DOMAIN other : TRUE
         IN AddAll(AddSet(sets, other[key]), MapDelete(other, key))

\* Update once GTIDStr is parsed: [err, sets].
Updated(sets, parsed) ==
    IF parsed.err THEN [err |-> TRUE, sets |-> sets]
    ELSE [err |-> FALSE, sets |-> AddAll(sets, parsed.sets)]

\* MysqlGTIDSet.Update: [err, sets].
Update(sets, GTIDStr) == Updated(sets, ParseMysqlGTIDSet(GTIDStr))

\* The characters of the printed forms, in the order of their bytes.
Chars ==
    <<" ", ",", "-", "0", "1", "2", "3", "4", "5", "6", "7", "8", "9", ":",
      "A", "B", "C", "D", "E", "F", "a", "b", "c", "d", "e", "f">>

CharRank(c) == CHOOSE k \in DOMAIN Chars : Chars[k] = c

RECURSIVE StringLess(_, _)
\* a < b, of two strings.
StringLess(a, b) ==
    IF b = <<>> THEN FALSE
    ELSE IF a = <<>> THEN TRUE
    ELSE IF Head(a) # Head(b) THEN CharRank(Head(a)) < CharRank(Head(b))
    ELSE StringLess(Tail(a), Tail(b))

RECURSIVE SortStringsInto(_, _)
SortStringsInto(strs, sorted) ==
    IF strs = <<>> THEN sorted
    ELSE LET x == Head(strs)
             k == Cardinality({j \in DOMAIN sorted : ~StringLess(x, sorted[j])})
         IN SortStringsInto(Tail(strs),
                            SubSeq(sorted, 1, k) \o <<x>> \o
                            SubSeq(sorted, k + 1, Len(sorted)))

\* sort.Strings.
SortStrings(strs) == SortStringsInto(strs, <<>>)

\* The orders in which a range loop may visit the keys of a map.
Orders(sets) ==
    {o \in [1..Cardinality(DOMAIN sets) -> DOMAIN sets] :
        \A i, j \in DOMAIN o : i # j => o[i] # o[j]}

\* A text for ParseMysqlGTIDSet: the UUID sets in the given order, not
\* sorted, with "," between them.
MysqlGTIDSet_String_Unsorted(sets, order) ==
    Join([k \in DOMAIN order |-> UUIDSet_String(sets[order[k]])], ",")

\* MysqlGTIDSet.String, the range loop visiting the keys in order.
MysqlGTIDSet_String(sets, order) ==
    IF Len(order) = 1 THEN UUIDSet_String(sets[order[1]])
    ELSE Join(SortStrings([k \in DOMAIN order |-> UUIDSet_String(sets[order[k]])]),
              ",")

RECURSIVE EncodeSets(_, _)
EncodeSets(sets, order) ==
    IF order = <<>> THEN <<>>
    ELSE UUIDSet_encode(sets[Head(order)]) \o EncodeSets(sets, Tail(order))

\* MysqlGTIDSet.Encode, the range loop visiting the keys in order.
MysqlGTIDSet_Encode(sets, order) ==
    PutUint64(Len(order)) \o EncodeSets(sets, order)

RECURSIVE DecodeSets(_, _, _, _)
\* The loop of DecodeMysqlGTIDSet: n sets still to read after pos bytes of
\* data, into sets.  data[pos:] is the empty slice when pos = len(data).
DecodeSets(data, pos, n, sets) ==
    IF n <= 0 THEN [err |-> FALSE, panic |-> FALSE, sets |-> sets]
    ELSE LET r == UUIDSet_decode(SubSeq(data, pos + 1, Len(data)))
         IN IF r.panic THEN [err |-> FALSE, panic |-> TRUE, sets |-> EmptySets]
            ELSE IF r.err THEN [err |-> TRUE, panic |-> FALSE, sets |-> EmptySets]
            ELSE DecodeSets(data, pos + r.pos, n - 1, AddSet(sets, r.set))

\* DecodeMysqlGTIDSet: [err, panic, sets].  n is int(Uint64(data)); a map
\* made with a negative or an oversized hint is an empty map.
DecodeMysqlGTIDSet(data) ==
    IF Len(data) < 8 THEN [err |-> TRUE, panic |-> FALSE, sets |-> EmptySets]
    ELSE DecodeSets(data, 8, Int64(SubSeq(data, 1, 8)), EmptySets)

\* MysqlGTIDSet.Equal.
MysqlGTIDSet_Equal(s, o) ==
    /\ Cardinality(DOMAIN o) = Cardinality(DOMAIN s)
    /\ \A key \in DOMAIN o :
           /\ key \in DOMAIN s
           /\ Equal(s[key].Intervals, o[key].Intervals)

(* ------------------------- calls on the codec -------------------------- *)

NumUUIDs == 2

\* The UUID number k: 16 bytes that differ from one UUID to the next.
UUIDOf(k) == [b \in 1..16 |-> (k * 83 + b * 29) % 256]

UUIDs == {UUIDOf(k) : k \in 1..NumUUIDs}

\* The key of every UUID in MysqlGTIDSet.Sets.
KeyOf == [u \in UUIDs |-> UUID_String(u)]

\* The MysqlGTIDSet that holds, for every UUID u of the domain of f, the
\* intervals f[u] under the key u.String().
SetsOf(f) ==
    [key \in {KeyOf[u] : u \in DOMAIN f} |->
        LET u == CHOOSE v \in DOMAIN f : KeyOf[v] = key
        IN UUIDSet(u, f[u])]

\* Normalized interval lists whose numbers fill one byte, two bytes, or are
\* negative, and the list with no interval.
CodecLists ==
    {<<>>,
     <<Interval(1, 2)>>,
     <<Interval(-1, 1), Interval(3, 4)>>,
     <<Interval(255, 258), Interval(4096, 65535)>>}

\* The sets of any number of UUIDs, each with one of these lists.
GTIDSets ==
    UNION {{SetsOf(f) : f \in [U -> CodecLists]} : U \in SUBSET UUIDs}

\* Count words over the whole 64-bit range: small counts, counts whose
\* 16*n leaves 64 bits (top byte 8, 16), the largest positive ones, and
\* counts with the top bit set.
Words ==
    {<<lo, mid, mid, mid, mid, mid, mid, hi>> :
        lo \in {0, 1, 2, 255}, mid \in {0, 255}, hi \in {0, 8, 16, 127, 128, 255}}

\* Buffers for UUIDSet.Decode: too short for a header, or a header with any
\* count word followed by no interval or by one.
UUIDSetBuffers ==
    {SubSeq(UUIDOf(1), 1, 10)} \cup
    {UUIDOf(1) \o w \o body :
        w \in Words, body \in {<<>>, EncodeIntervals(<<Interval(1, 3)>>)}}

\* Buffers for DecodeMysqlGTIDSet: too short for a count, or any count word
\* followed by nothing or by the bytes of one UUID set.
GTIDSetBuffers ==
    {<<1, 0, 0>>} \cup
    {w \o body : w \in Words, body \in {<<>>} \cup UUIDSetBuffers}

InitCodec ==
    /\ ZeroPool
    /\ gtidSet = NoSets
    /\ \/ \E g \in GTIDSets : call = Called("Encode", g)
       \/ \E data \in GTIDSetBuffers :
              call = Called("DecodeMysqlGTIDSet", data)
       \/ \E data \in UUIDSetBuffers : call = Called("UUIDSet.Decode", data)

\* MysqlGTIDSet.Encode: the map is ranged over in any order.
MysqlGTIDSet_Encode_Call ==
    /\ call.fn = "Encode"
    /\ ~call.done
    /\ \E order \in Orders(call.in) :
           Returns(MysqlGTIDSet_Encode(call.in, order))
    /\ NoPool
    /\ UNCHANGED gtidSet

\* DecodeMysqlGTIDSet of the bytes that Encode returned.
DecodeEncoded_Call ==
    /\ call.fn = "Encode"
    /\ call.done
    /\ call' = [fn |-> "DecodeMysqlGTIDSet(Encode)",
                in |-> [data |-> call.out, encoded |-> call.in],
                out |-> DecodeMysqlGTIDSet(call.out),
                done |-> TRUE]
    /\ NoPool
    /\ UNCHANGED gtidSet

\* DecodeMysqlGTIDSet of a buffer.
DecodeMysqlGTIDSet_Call ==
    /\ call.fn = "DecodeMysqlGTIDSet"
    /\ ~call.done
    /\ Returns(DecodeMysqlGTIDSet(call.in))
    /\ NoPool
    /\ UNCHANGED gtidSet

\* UUIDSet.Decode of a buffer.
UUIDSet_Decode_Call ==
    /\ call.fn = "UUIDSet.Decode"
    /\ ~call.done
    /\ Returns(UUIDSet_Decode(call.in))
    /\ NoPool
    /\ UNCHANGED gtidSet

NextCodec ==
    \/ MysqlGTIDSet_Encode_Call
    \/ DecodeEncoded_Call
    \/ DecodeMysqlGTIDSet_Call
    \/ UUIDSet_Decode_Call

CodecSpec == InitCodec /\ [][NextCodec]_vars

(* ------------------------- calls on a GTID set ------------------------- *)

\* The texts "uuid:intervals[,uuid:intervals]" of the UUIDs of some subset,
\* each with a list of lists, written in any order of the UUIDs and with
\* the intervals in the order of the list.
TextsOver(lists) ==
    UNION {UNION {{MysqlGTIDSet_String_Unsorted(SetsOf(f), order) :
                      order \in Orders(SetsOf(f))} :
                  f \in [U -> lists]} :
           U \in SUBSET UUIDs}

MaxArg == 2

\* The numbers in the arguments of the calls, and the lists of at most two
\* intervals over them, sorted or not, apart or not.
ArgPoints == (-1)..MaxArg

ArgSlices == UNION {[1..n -> IntervalsOver(ArgPoints)] : n \in 0..2}

\* The lists that a text holds: one or two intervals of GNOs from 0.
TextLists ==
    {s \in ArgSlices : Len(s) >= 1 /\ \A k \in DOMAIN s : s[k].Start >= 0}

\* The texts passed to Update: of one interval per UUID, and one that is
\* no GTID set.
UpdateTexts ==
    TextsOver({<<Interval(0, 1)>>, <<Interval(1, 2)>>}) \cup {<<"0">>}

\* The UUIDSet arguments: NewUUIDSet with no interval, one or two, of any
\* int64; ParseUUIDSet of a UUID and one or two intervals.
UUIDSetArgs ==
    {NewUUIDSet(u, s) : u \in UUIDs, s \in ArgSlices} \cup
    {ParseUUIDSet(UUIDSet_Bytes(UUIDSet(u, s))).set : u \in UUIDs, s \in TextLists}

\* The call that has just returned.
Returned(fn, in, out) == [fn |-> fn, in |-> in, out |-> out, done |-> TRUE]

\* ParseMysqlGTIDSet returned r for str.
Parsed(str, r) ==
    /\ ~r.err
    /\ gtidSet = r.sets
    /\ call = Returned("ParseMysqlGTIDSet", str, <<>>)

\* The set that ParseMysqlGTIDSet returned for a text.
InitGTID ==
    /\ ZeroPool
    /\ \E str \in TextsOver(TextLists) : Parsed(str, ParseMysqlGTIDSet(str))

AddSet_Call ==
    /\ \E set \in UUIDSetArgs : gtidSet' = AddSet(gtidSet, set)
    /\ call' = Returned("AddSet", <<>>, <<>>)
    /\ NoPool

MinusSet_Call ==
    /\ \E set \in UUIDSetArgs : gtidSet' = MinusSet(gtidSet, set)
    /\ call' = Returned("MinusSet", <<>>, <<>>)
    /\ NoPool

\* Update returned r.
UpdateReturns(r) ==
    /\ gtidSet' = r.sets
    /\ call' = Returned("Update", <<>>, r.err)

Update_Call ==
    /\ \E GTIDStr \in UpdateTexts : UpdateReturns(Update(gtidSet, GTIDStr))
    /\ NoPool

\* AddGTID of a GNO whose interval lies within ArgPoints.
AddGTID_Call ==
    /\ \E uuid \in UUIDs, gno \in ArgPoints \ {MaxArg} :
           gtidSet' = AddGTID(gtidSet, uuid, gno)
    /\ call' = Returned("AddGTID", <<>>, <<>>)
    /\ NoPool

\* MysqlGTIDSet.String: the map is ranged over in any order.
MysqlGTIDSet_String_Call ==
    /\ call.fn # "String"
    /\ \E order \in Orders(gtidSet) :
           call' = Returned("String", <<>>, MysqlGTIDSet_String(gtidSet, order))
    /\ NoPool
    /\ UNCHANGED gtidSet

\* ParseMysqlGTIDSet of the string that String returned.
ParsePrinted_Call ==
    /\ call.fn = "String"
    /\ call' = Returned("ParseMysqlGTIDSet(String)", call.out,
                        ParseMysqlGTIDSet(call.out))
    /\ NoPool
    /\ UNCHANGED gtidSet

NextGTID ==
    \/ AddSet_Call
    \/ MinusSet_Call
    \/ Update_Call
    \/ AddGTID_Call
    \/ MysqlGTIDSet_String_Call
    \/ ParsePrinted_Call

GTIDSpec == InitGTID /\ [][NextGTID]_vars

(* ------------------------ calls that insert ---------------------------- *)

\* A normalized slice and an interval for InsertInterval; a set that is
\* empty or holds the first UUID, a UUID and a GNO for AddGTID.
InitInsert ==
    /\ ZeroPool
    /\ gtidSet = NoSets
    /\ \/ \E s \in NormalizedSlices, i \in IntervalsOver(Points) :
              call = Called("InsertInterval", <<s, i>>)
       \/ \E s \in NormalizedSlices, uuid \in UUIDs, gno \in Points \ {MaxPoint} :
              call = Called("AddGTID",
                            <<IF s = <<>> THEN EmptySets
                              ELSE MapPut(EmptySets, UUID_String(UUIDOf(1)),
                                          UUIDSet(UUIDOf(1), s)),
                              uuid, gno>>)

InsertInterval_Call ==
    /\ call.fn = "InsertInterval"
    /\ ~call.done
    /\ Returns(InsertInterval(call.in[1], call.in[2]))
    /\ NoPool
    /\ UNCHANGED gtidSet

AddGTID_OnSet_Call ==
    /\ call.fn = "AddGTID"
    /\ ~call.done
    /\ Returns(AddGTID(call.in[1], call.in[2], call.in[3]))
    /\ NoPool
    /\ UNCHANGED gtidSet

NextInsert ==
    \/ InsertInterval_Call
    \/ AddGTID_OnSet_Call

InsertSpec == InitInsert /\ [][NextInsert]_vars

(* --------------------- a pool whose connect() may fail ----------------- *)

\* The producer with a connect() that may fail: it backs off and looks again.
RetryProducerStep ==
    \/ ProducerStep
    \/ newConnectionProducer_ConnectFailed
    \/ newConnectionProducer_Backoff

\* The steps of a call once it has begun, with no connection old enough to
\* be pinged.
RetryCallStep(c) ==
    \/ getConnection_Lock(c)
    \/ getConnection_Select(c)
    \/ GetConn_Return(c)

RetryCallerStep ==
    \/ \E c \in Callers : GetConn(c)
    \/ \E c \in Callers : getConnection_CtxDone(c)
    \/ \E c \in Callers : PutConn(c)
    \/ \E c \in Callers : DropConn(c)
    \/ \E c \in Callers : RetryCallStep(c)

\* The pool between two firings of the janitor's ticker: the janitor only
\* waits in its select, and no time passes.
NextRetry ==
    \/ RetryProducerStep
    \/ RetryCallerStep
    \/ closeOldIdleConnections_CtxDone
    \/ Close_Cancel
    \/ Close_Return

\* Every goroutine that can take a step eventually does, a connect() that is
\* tried again and again eventually succeeds, and a caller that holds a
\* connection eventually gives it back.
RetryFairness ==
    /\ WF_vars(RetryProducerStep)
    /\ SF_vars(newConnectionProducer_Connected)
    /\ WF_vars(closeOldIdleConnections_CtxDone)
    /\ WF_vars(Close_Return)
    /\ \A c \in Callers : WF_vars(RetryCallStep(c))
    /\ \A c \in Callers : WF_vars(PutConn(c) \/ DropConn(c))

InitRetry ==
    /\ NewPool(<<0, 2, 1>>)
    /\ call = NoCall
    /\ gtidSet = NoSets

RetrySpec == InitRetry /\ [][NextRetry]_vars /\ RetryFairness

(* ------------------------ a pool that is closed ------------------------ *)

\* The goroutine that NewPool starts to make the first minAlive connections.
ClosePrewarmStep ==
    \/ PrewarmStep
    \/ startNewConnections_ConnectFailed("prewarm")

NextClose ==
    \/ NextRetry
    \/ ClosePrewarmStep

\* As RetryFairness, and the goroutine of startNewConnections runs on; a
\* select of the producer that finds pool.ctx.Done() ready time and again
\* eventually takes that case (select picks among its ready cases at random).
CloseFairness ==
    /\ RetryFairness
    /\ WF_vars(ClosePrewarmStep)
    /\ SF_vars(newConnectionProducer_CtxDone)
    /\ SF_vars(newConnectionProducer_Backoff /\ prod'.pc = "done")

InitClose ==
    /\ NewPool(<<1, 2, 1>>)
    /\ call = NoCall
    /\ gtidSet = NoSets

CloseSpec == InitClose /\ [][NextClose]_vars /\ CloseFairness

(* ----------------------- FormatDescriptionEvent ------------------------ *)

EventHeaderSize == 19
BINLOG_CHECKSUM_ALG_UNDEF == 255

\* The characters of server versions and the bytes that hold them.
VersionChars ==
    <<"-", ".", "0", "1", "2", "3", "4", "5", "6", "7", "8", "9",
      "B", "D", "M", "a", "b", "d", "g", "i", "l", "m", "o", "r">>

VersionBytes ==
    <<45, 46, 48, 49, 50, 51, 52, 53, 54, 55, 56, 57,
      66, 68, 77, 97, 98, 100, 103, 105, 108, 109, 111, 114>>

\* []byte(str) and string(bytes), over these characters.
BytesOf(str) ==
    [k \in DOMAIN str |->
        VersionBytes[CHOOSE j \in DOMAIN VersionChars : VersionChars[j] = str[k]]]

StringOf(bytes) ==
    [k \in DOMAIN bytes |->
        IF \E j \in DOMAIN VersionBytes : VersionBytes[j] = bytes[k]
        THEN VersionChars[CHOOSE j \in DOMAIN VersionBytes : VersionBytes[j] = bytes[k]]
        ELSE "?"]

\* strings.ToLower: an upper-case letter becomes the letter 32 bytes later.
ToLower(str) ==
    [k \in DOMAIN str |->
        IF str[k] \in {"B", "D", "M"}
        THEN StringOf(<<BytesOf(<<str[k]>>)[1] + 32>>)[1]
        ELSE str[k]]

\* strings.Contains(str, substr).
Contains(str, substr) ==
    \E k \in 0..(Len(str) - Len(substr)) :
        SubSeq(str, k + 1, k + Len(substr)) = substr

\* x, _ := strconv.Atoi(str): 0 when str is not a number.
Atoi(str) == LET r == ParseInt(str) IN IF r.err THEN 0 ELSE r.v

\* unicode.IsNumber, of the characters above.
IsNumber(c) == DigitValue(c) >= 0

\* The index that the loop of splitServerVersion leaves: that of the first
\* character that is no number, 0 when there is none.
SuffixIndex(str) ==
    IF \E i \in DOMAIN str : ~IsNumber(str[i])
    THEN (CHOOSE i \in DOMAIN str :
              ~IsNumber(str[i]) /\ \A h \in 1..(i - 1) : IsNumber(str[h])) - 1
    ELSE 0

\* splitServerVersion, of the fields that "." separates.
VersionOfFields(seps) ==
    IF Len(seps) < 3 THEN <<0, 0, 0>>
    ELSE <<Atoi(seps[1]), Atoi(seps[2]),
           Atoi(SubSeq(seps[3], 1, SuffixIndex(seps[3])))>>

splitServerVersion(server) == VersionOfFields(Split(server, "."))

\* (x*256+y)*256+z.
VersionProduct(versionSplit) ==
    (versionSplit[1] * 256 + versionSplit[2]) * 256 + versionSplit[3]

calcVersionProduct(server) == VersionProduct(splitServerVersion(server))

checksumVersionProductMysql == VersionProduct(<<5, 6, 1>>)
checksumVersionProductMariaDB == VersionProduct(<<5, 3, 0>>)

\* The bytes of serverVersionRaw before the first 0x0, all of them without one.
ServerVersionOf(serverVersionRaw) ==
    IF \E k \in DOMAIN serverVersionRaw : serverVersionRaw[k] = 0
    THEN StringOf(SubSeq(serverVersionRaw, 1,
             (CHOOSE k \in DOMAIN serverVersionRaw :
                  serverVersionRaw[k] = 0 /\
                  \A h \in 1..(k - 1) : serverVersionRaw[h] # 0) - 1))
    ELSE StringOf(serverVersionRaw)

\* What Decode leaves in the event for the server version it has read.
DecodedWith(data, ServerVersion) ==
    LET pos == 57
        checksumProduct ==
            IF Contains(ToLower(ServerVersion), <<"m", "a", "r", "i", "a", "d", "b">>)
            THEN checksumVersionProductMariaDB
            ELSE checksumVersionProductMysql
    IN IF calcVersionProduct(ServerVersion) >= checksumProduct
       THEN IF Len(data) - 5 < pos
            THEN [panic |-> TRUE, err |-> FALSE]
            ELSE [panic |-> FALSE, err |-> FALSE,
                  ServerVersion |-> ServerVersion,
                  ChecksumAlgorithm |-> data[Len(data) - 4],
                  EventTypeHeaderLengths |-> SubSeq(data, pos + 1, Len(data) - 5)]
       ELSE [panic |-> FALSE, err |-> FALSE,
             ServerVersion |-> ServerVersion,
             ChecksumAlgorithm |-> BINLOG_CHECKSUM_ALG_UNDEF,
             EventTypeHeaderLengths |-> SubSeq(data, pos + 1, Len(data))]

\* FormatDescriptionEvent.Decode: 2 bytes of version, 50 of server version, 4
\* of timestamp, the header length, then the lengths of the event headers.
\* Reading past the end of data panics.
FormatDescriptionEvent_Decode(data) ==
    IF Len(data) < 57 THEN [panic |-> TRUE, err |-> FALSE]
    ELSE IF data[57] # EventHeaderSize THEN [panic |-> FALSE, err |-> TRUE]
    ELSE DecodedWith(data, ServerVersionOf(SubSeq(data, 3, 52)))

(* --------------------- calls on a format description ------------------- *)

MaxVersionPart == 2

\* Server versions X.Y.Z around the two thresholds, with and without a suffix.
VersionParts ==
    {4, 5} \X {3, 6} \X ((0..MaxVersionPart) \cup {10})

Suffixes ==
    {<<>>, <<"a">>, <<"-", "l", "o", "g">>,
     <<"-", "M", "a", "r", "i", "a", "D", "B">>,
     <<".", "1", "-", "m", "a", "r", "i", "a", "d", "b">>}

\* What follows the header length: the lengths of the event headers, then
\* the checksum algorithm and 4 bytes of checksum.
PostHeaders == {<<56, 13, 1, 9, 8, 7, 6>>, <<56, 0, 200, 100, 50, 25>>}

VersionText(in) ==
    FormatUint(in.version[1]) \o <<".">> \o FormatUint(in.version[2]) \o <<".">> \o
    FormatUint(in.version[3]) \o in.suffix

\* The body of a format description event for the input in.
FormatDescriptionData(in) ==
    <<4, 0>> \o BytesOf(VersionText(in)) \o
    [k \in 1..(50 - Len(VersionText(in))) |-> 0] \o
    <<1, 0, 0, 0>> \o <<in.headerLength>> \o in.post

InitFormat ==
    /\ ZeroPool
    /\ gtidSet = NoSets
    /\ \E v \in VersionParts, sfx \in Suffixes, post \in PostHeaders,
          hl \in {EventHeaderSize, EventHeaderSize + 1} :
           call = Called("FormatDescriptionEvent.Decode",
                         [version |-> v, suffix |-> sfx, headerLength |-> hl,
                          post |-> post])

FormatDescriptionEvent_Decode_Call ==
    /\ call.fn = "FormatDescriptionEvent.Decode"
    /\ ~call.done
    /\ Returns(FormatDescriptionEvent_Decode(FormatDescriptionData(call.in)))
    /\ NoPool
    /\ UNCHANGED gtidSet

NextFormat == FormatDescriptionEvent_Decode_Call

FormatSpec == InitFormat /\ [][NextFormat]_vars

(* ------------------------------ GTIDEvent ------------------------------ *)

SidLength == 16
LogicalTimestampTypeCode == 2
PartLogicalTimestampLength == 8
UndefinedServerVer == 999999

\* n bytes of zero.
Zeros(n) == SubSeq(<<0, 0, 0, 0, 0, 0, 0, 0>>, 1, n)

\* mysql.FixedLengthInt: the little-endian number of up to 8 bytes, as the 8
\* bytes of the uint64.
FixedLengthInt(buf) == buf \o Zeros(8 - Len(buf))

\* mysql.LengthEncodedInt: [num, n, panic].  A first byte below 251 is the
\* number; 252, 253 and 254 announce 2, 3 and 8 bytes, read without a check
\* of the length; 251 is NULL.
LengthEncodedInt(b) ==
    IF b = <<>> THEN [num |-> Zeros(8), n |-> 0, panic |-> FALSE]
    ELSE LET follow == IF b[1] = 252 THEN 2 ELSE IF b[1] = 253 THEN 3
                       ELSE IF b[1] = 254 THEN 8 ELSE 0
         IN IF Len(b) < 1 + follow THEN [num |-> Zeros(8), n |-> 0, panic |-> TRUE]
            ELSE IF b[1] = 251 THEN [num |-> Zeros(8), n |-> 1, panic |-> FALSE]
            ELSE IF follow = 0
            THEN [num |-> FixedLengthInt(<<b[1]>>), n |-> 1, panic |-> FALSE]
            ELSE [num |-> FixedLengthInt(SubSeq(b, 2, 1 + follow)),
                  n |-> 1 + follow, panic |-> FALSE]

\* A GTIDEvent with every field zero.
ZeroGTIDEvent ==
    [panic |-> FALSE, CommitFlag |-> 0, SID |-> <<>>, GNO |-> Zeros(8),
     LastCommitted |-> Zeros(8), SequenceNumber |-> Zeros(8),
     ImmediateCommitTimestamp |-> Zeros(8), OriginalCommitTimestamp |-> Zeros(8),
     TransactionLength |-> Zeros(8),
     ImmediateServerVersion |-> Zeros(4), OriginalServerVersion |-> Zeros(4)]

\* Decode reads or slices past the end of data.
DecodePanics == [ZeroGTIDEvent EXCEPT !.panic = TRUE]

\* w &= ^(1 << (8*k - 1)): the top bit of byte k cleared.
ClearTopBit(w, k) == [w EXCEPT ![k] = @ % 128]

\* The end of Decode: the server versions, read at pos.
DecodeServerVersions(data, e, pos) ==
    LET u == [e EXCEPT !.ImmediateServerVersion = LittleEndian(UndefinedServerVer, 4),
                       !.OriginalServerVersion = LittleEndian(UndefinedServerVer, 4)]
    IN IF Len(data) - pos < 4 THEN u
       ELSE LET v == SubSeq(data, pos + 1, pos + 4)
            IN IF v[4] >= 128
               THEN IF Len(data) - (pos + 4) < 4 THEN DecodePanics
                    ELSE [u EXCEPT !.ImmediateServerVersion = ClearTopBit(v, 4),
                                   !.OriginalServerVersion =
                                       SubSeq(data, pos + 5, pos + 8)]
               ELSE [u EXCEPT !.ImmediateServerVersion = v,
                              !.OriginalServerVersion = v]

\* The transaction length, read at pos.
DecodeTransactionLength(data, e, pos) ==
    IF Len(data) - pos < 1 THEN e
    ELSE IF LengthEncodedInt(SubSeq(data, pos + 1, Len(data))).panic
    THEN DecodePanics
    ELSE DecodeServerVersions(data,
             [e EXCEPT !.TransactionLength =
                           LengthEncodedInt(SubSeq(data, pos + 1, Len(data))).num],
             pos + LengthEncodedInt(SubSeq(data, pos + 1, Len(data))).n)

\* Commit timestamps that keep bit 55 in ImmediateCommitTimestamp.
DecodeCommitTimestamps_KeepsFlag(data, e, pos) ==
    IF Len(data) - pos < 7 THEN e
    ELSE IF data[pos + 7] >= 128
    THEN IF Len(data) < pos + 14 THEN DecodePanics
         ELSE DecodeTransactionLength(data,
                  [e EXCEPT !.ImmediateCommitTimestamp =
                                FixedLengthInt(SubSeq(data, pos + 1, pos + 7)),
                            !.OriginalCommitTimestamp =
                                FixedLengthInt(SubSeq(data, pos + 8, pos + 14))],
                  pos + 14)
    ELSE DecodeTransactionLength(data,
             [e EXCEPT !.ImmediateCommitTimestamp =
                           FixedLengthInt(SubSeq(data, pos + 1, pos + 7)),
                       !.OriginalCommitTimestamp =
                           FixedLengthInt(SubSeq(data, pos + 1, pos + 7))],
             pos + 7)

\* The commit timestamps, read at pos.  data[pos:pos+7] past the end of data
\* panics, the capacity of data taken to be its length.
DecodeCommitTimestamps(data, e, pos) ==
    IF Len(data) - pos < 7 THEN e
    ELSE IF data[pos + 7] >= 128
    THEN IF Len(data) < pos + 14 THEN DecodePanics
         ELSE DecodeTransactionLength(data,
                  [e EXCEPT !.ImmediateCommitTimestamp =
                                ClearTopBit(FixedLengthInt(SubSeq(data, pos + 1, pos + 7)), 7),
                            !.OriginalCommitTimestamp =
                                FixedLengthInt(SubSeq(data, pos + 8, pos + 14))],
                  pos + 14)
    ELSE DecodeTransactionLength(data,
             [e EXCEPT !.ImmediateCommitTimestamp =
                           FixedLengthInt(SubSeq(data, pos + 1, pos + 7)),
                       !.OriginalCommitTimestamp =
                           FixedLengthInt(SubSeq(data, pos + 1, pos + 7))],
             pos + 7)

\* GTIDEvent.Decode: the flag, the SID, the GNO, then if data has 42 bytes
\* and the type code is 2 the logical timestamps and what follows them.
GTIDEvent_Decode(data) ==
    IF Len(data) < 1 + SidLength + 8 THEN DecodePanics
    ELSE IF Len(data) < 42 \/ data[1 + SidLength + 8 + 1] # LogicalTimestampTypeCode
    THEN [ZeroGTIDEvent EXCEPT !.CommitFlag = data[1],
                               !.SID = SubSeq(data, 2, 1 + SidLength),
                               !.GNO = SubSeq(data, 2 + SidLength, 9 + SidLength)]
    ELSE DecodeCommitTimestamps(data,
             [ZeroGTIDEvent EXCEPT
                  !.CommitFlag = data[1],
                  !.SID = SubSeq(data, 2, 1 + SidLength),
                  !.GNO = SubSeq(data, 2 + SidLength, 9 + SidLength),
                  !.LastCommitted = SubSeq(data, 27, 26 + PartLogicalTimestampLength),
                  !.SequenceNumber = SubSeq(data, 35, 42)],
             42)

(* -------------------------- calls on a GTID event ---------------------- *)

MaxStamp == 2

\* The 7 bytes of a commit timestamp, without and with bit 55.
Stamps == {<<b, 2, 3, 4, 5, 6, h>> : b \in 1..MaxStamp, h \in {7, 135}}

\* The 4 bytes of a server version, without and with bit 31.
ServerVersions == {<<b, 31, 1, h>> : b \in 1..MaxStamp, h \in {0, 128}}

\* The pieces that may follow the logical timestamps: the immediate and the
\* original commit timestamp, the transaction length, the immediate and the
\* original server version, each piece whole, or the body cut short where
\* Decode looks at its length.
Tails ==
    LET origs(imm) == IF imm # <<>> /\ Len(imm) = 7 /\ imm[7] >= 128
                      THEN Stamps ELSE {<<>>}
        lens(imm) == IF Len(imm) = 7 THEN {<<>>, <<200>>, <<252, 1, 2>>} ELSE {<<>>}
        svs(len) == IF len = <<>> THEN {<<>>}
                    ELSE {<<>>, <<9>>, <<9, 8, 7>>} \cup ServerVersions
        osvs(sv) == IF Len(sv) = 4 /\ sv[4] >= 128
                    THEN {<<7, 32, 1, 0>>, <<7, 32, 1, 128>>} ELSE {<<>>}
    IN UNION {UNION {UNION {UNION {
           {[imm |-> imm, orig |-> orig, len |-> len, sv |-> sv, osv |-> osv] :
                osv \in osvs(sv)} :
           sv \in svs(len)} : len \in lens(imm)} : orig \in origs(imm)} :
           imm \in Stamps \cup {<<>>, <<1, 2, 3>>}}

\* The body of a GTID event with the tail t after the logical timestamps.
GTIDEventData(t) ==
    <<1>> \o UUIDOf(1) \o PutInt64(5) \o <<LogicalTimestampTypeCode>> \o
    PutInt64(3) \o PutInt64(4) \o t.imm \o t.orig \o t.len \o t.sv \o t.osv

InitGTIDEvent ==
    /\ ZeroPool
    /\ gtidSet = NoSets
    /\ \E t \in Tails : call = Called("GTIDEvent.Decode", t)

GTIDEvent_Decode_Call ==
    /\ call.fn = "GTIDEvent.Decode"
    /\ ~call.done
    /\ Returns(GTIDEvent_Decode(GTIDEventData(call.in)))
    /\ NoPool
    /\ UNCHANGED gtidSet

NextGTIDEvent == GTIDEvent_Decode_Call

GTIDEventSpec == InitGTIDEvent /\ [][NextGTIDEvent]_vars

(* --------------------------- jsonBinaryDecoder ------------------------- *)

\* Bit i of the uint64 w, a word of 8 bytes.
Bit(w, i) == (w[(i \div 8) + 1] \div (2 ^ (i % 8))) % 2

\* Byte k of w | (uint64(v) << shift), for v below 128.
OrShiftedByte(w, v, shift, k) ==
    LET b(j) == LET i == 8 * (k - 1) + j
                IN IF Bit(w, i) = 1 THEN 1
                   ELSE IF i >= shift /\ i < shift + 7
                   THEN (v \div (2 ^ (i - shift))) % 2
                   ELSE 0
    IN b(0) + 2 * b(1) + 4 * b(2) + 8 * b(3) + 16 * b(4) + 32 * b(5) +
       64 * b(6) + 128 * b(7)

\* w | (uint64(v) << shift).
OrShifted(w, v, shift) ==
    <<OrShiftedByte(w, v, shift, 1), OrShiftedByte(w, v, shift, 2),
      OrShiftedByte(w, v, shift, 3), OrShiftedByte(w, v, shift, 4),
      OrShiftedByte(w, v, shift, 5), OrShiftedByte(w, v, shift, 6),
      OrShiftedByte(w, v, shift, 7), OrShiftedByte(w, v, shift, 8)>>

\* length > math.MaxUint32.
AboveMaxUint32(length) == \E k \in 5..8 : length[k] # 0

\* What decodeVariableLength returns with d.err set.
VariableLengthFailed == [err |-> TRUE, length |-> Zeros(8), n |-> 0]

RECURSIVE VariableLengthLoop_NoLimit(_, _, _, _)
\* A loop that returns a length above math.MaxUint32 as it is.
VariableLengthLoop_NoLimit(data, maxCount, pos, length) ==
    IF pos >= maxCount THEN VariableLengthFailed
    ELSE IF data[pos + 1] < 128
    THEN [err |-> FALSE,
          length |-> OrShifted(length, data[pos + 1] % 128, 7 * pos),
          n |-> pos + 1]
    ELSE VariableLengthLoop_NoLimit(data, maxCount, pos + 1,
             OrShifted(length, data[pos + 1] % 128, 7 * pos))

RECURSIVE VariableLengthLoop(_, _, _, _)
\* The loop of decodeVariableLength from pos on, length read so far.
VariableLengthLoop(data, maxCount, pos, length) ==
    IF pos >= maxCount THEN VariableLengthFailed
    ELSE IF data[pos + 1] < 128
    THEN IF AboveMaxUint32(OrShifted(length, data[pos + 1] % 128, 7 * pos))
         THEN VariableLengthFailed
         ELSE [err |-> FALSE,
               length |-> OrShifted(length, data[pos + 1] % 128, 7 * pos),
               n |-> pos + 1]
    ELSE VariableLengthLoop(data, maxCount, pos + 1,
             OrShifted(length, data[pos + 1] % 128, 7 * pos))

\* decodeVariableLength: [err, length, n], length the int as a word of 8
\* bytes (int has 64 bits).
decodeVariableLength(data) ==
    VariableLengthLoop(data, Min(5, Len(data)), 0, Zeros(8))

(* ---------------------- calls on a variable length --------------------- *)

MaxData == 6

\* Bytes that end a length (0, 15, 16) and bytes that go on (128, 255).
LengthBytes == {0, 15, 16, 128, 255}

RECURSIVE DataOver(_, _)
\* The byte strings of up to n bytes of the set bytes.
DataOver(bytes, n) ==
    IF n = 0 THEN {<<>>}
    ELSE DataOver(bytes, n - 1) \cup
         {Append(d, b) : d \in {x \in DataOver(bytes, n - 1) : Len(x) = n - 1},
                         b \in bytes}

InitVariableLength ==
    /\ ZeroPool
    /\ gtidSet = NoSets
    /\ \E data \in DataOver(LengthBytes, MaxData) :
           call = Called("decodeVariableLength", data)

decodeVariableLength_Call ==
    /\ call.fn = "decodeVariableLength"
    /\ ~call.done
    /\ Returns(decodeVariableLength(call.in))
    /\ NoPool
    /\ UNCHANGED gtidSet

NextVariableLength == decodeVariableLength_Call

VariableLengthSpec == InitVariableLength /\ [][NextVariableLength]_vars

(* --------------------------- decodeJsonBinary -------------------------- *)

JSONB_SMALL_OBJECT == 0
JSONB_LARGE_OBJECT == 1
JSONB_SMALL_ARRAY == 2
JSONB_LARGE_ARRAY == 3
JSONB_LITERAL == 4
JSONB_INT16 == 5
JSONB_UINT16 == 6
JSONB_INT32 == 7
JSONB_UINT32 == 8
JSONB_INT64 == 9
JSONB_UINT64 == 10
JSONB_DOUBLE == 11
JSONB_STRING == 12
JSONB_OPAQUE == 15

\* The types of mysql/const.go that decodeOpaque tells apart.
MYSQL_TYPE_TIMESTAMP == 7
MYSQL_TYPE_DATE == 10
MYSQL_TYPE_TIME == 11
MYSQL_TYPE_DATETIME == 12
MYSQL_TYPE_NEWDECIMAL == 246

jsonbGetOffsetSize(isSmall) == IF isSmall THEN 2 ELSE 4
jsonbGetKeyEntrySize(isSmall) == 2 + jsonbGetOffsetSize(isSmall)
jsonbGetValueEntrySize(isSmall) == 1 + jsonbGetOffsetSize(isSmall)

\* The decoded values: nil, a bool, a scalar with the bytes it was read
\* from, an array, an object.
Nil == [k |-> "nil"]
Scalar(k, b) == [k |-> k, b |-> b]

\* What a decoding step leaves: the value with d.err nil, d.err set, or a
\* panic of the runtime.
Decoded(v) == [err |-> FALSE, panic |-> FALSE, v |-> v]
DecodeFailed == [err |-> TRUE, panic |-> FALSE, v |-> Nil]
DecodePanicked == [err |-> FALSE, panic |-> TRUE, v |-> Nil]

\* data[off:].
From(data, off) == SubSeq(data, off + 1, Len(data))

\* decodeCount of data[off:], which is long enough: the uint16, or the uint32
\* as a count (the number itself below Huge, Huge for every larger one).
decodeCount(data, off, isSmall) ==
    IF isSmall THEN data[off + 1] + 256 * data[off + 2]
    ELSE IF data[off + 3] # 0 \/ data[off + 4] # 0 THEN Huge
    ELSE data[off + 1] + 256 * data[off + 2]

isInlineValue(tp, isSmall) ==
    IF tp \in {JSONB_INT16, JSONB_UINT16, JSONB_LITERAL} THEN TRUE
    ELSE IF tp \in {JSONB_INT32, JSONB_UINT32} THEN ~isSmall
    ELSE FALSE

decodeLiteral(data) ==
    IF Len(data) < 1 THEN DecodeFailed
    ELSE IF data[1] = 0 THEN Decoded(Nil)
    ELSE IF data[1] = 1 THEN Decoded(Scalar("bool", TRUE))
    ELSE IF data[1] = 2 THEN Decoded(Scalar("bool", FALSE))
    ELSE DecodeFailed

\* decodeInt16 ... decodeDouble: the first width bytes, or the error of
\* isDataShort.
decodeFixed(k, data, width) ==
    IF Len(data) < width THEN DecodeFailed
    ELSE Decoded(Scalar(k, SubSeq(data, 1, width)))

\* The l bytes after the n bytes of their length, given what
\* decodeVariableLength returned for data.
LengthPrefixed(data, r) ==
    IF r.err \/ Len(data) < Int64(r.length) + r.n THEN DecodeFailed
    ELSE Decoded(SubSeq(data, r.n + 1, r.n + Int64(r.length)))

decodeString(data) ==
    IF LengthPrefixed(data, decodeVariableLength(data)).err THEN DecodeFailed
    ELSE Decoded(Scalar("string",
                        LengthPrefixed(data, decodeVariableLength(data)).v))

\* The switch of decodeOpaque on the MySQL type, data the payload.
\* decodeDecimal indexes data[0] and data[1] without a check of the length.
decodeOpaqueOf(tp, data) ==
    IF tp = MYSQL_TYPE_NEWDECIMAL
    THEN IF Len(data) < 2 THEN DecodePanicked ELSE Decoded(Scalar("decimal", data))
    ELSE IF tp = MYSQL_TYPE_TIME THEN decodeFixed("time", data, 8)
    ELSE IF tp \in {MYSQL_TYPE_DATE, MYSQL_TYPE_DATETIME, MYSQL_TYPE_TIMESTAMP}
    THEN decodeFixed("datetime", data, 8)
    ELSE Decoded(Scalar("string", data))

decodeOpaque(data) ==
    IF Len(data) < 1 THEN DecodeFailed
    ELSE IF LengthPrefixed(Tail(data), decodeVariableLength(Tail(data))).err
    THEN DecodeFailed
    ELSE decodeOpaqueOf(data[1],
             LengthPrefixed(Tail(data), decodeVariableLength(Tail(data))).v)

RECURSIVE KeysLoop(_, _, _, _, _, _)
\* The loop over the key entries from the i-th on: [err, keys].
KeysLoop(data, isSmall, count, headerSize, i, keys) ==
    IF i >= count THEN [err |-> FALSE, keys |-> keys]
    ELSE LET entryOffset == 2 * jsonbGetOffsetSize(isSmall) +
                            jsonbGetKeyEntrySize(isSmall) * i
             keyOffset == decodeCount(data, entryOffset, isSmall)
             keyLength == decodeCount(data, entryOffset + jsonbGetOffsetSize(isSmall),
                                      TRUE)
         IN IF keyOffset < headerSize \/ Len(data) < keyOffset + keyLength
            THEN [err |-> TRUE, keys |-> <<>>]
            ELSE KeysLoop(data, isSmall, count, headerSize, i + 1,
                          Append(keys, SubSeq(data, keyOffset + 1,
                                              keyOffset + keyLength)))

RECURSIVE MapOf(_, _)
\* m[keys[i]] = values[i], for every i in turn.
MapOf(keys, values) ==
    IF keys = <<>> THEN [key \in {} |-> Nil]
    ELSE MapPut(MapOf(SubSeq(keys, 1, Len(keys) - 1),
                      SubSeq(values, 1, Len(values) - 1)),
                keys[Len(keys)], values[Len(values)])

RECURSIVE decodeValue(_, _, _)
RECURSIVE ValuesLoop(_, _, _, _, _, _, _)
RECURSIVE decodeObjectOrArray(_, _, _, _)

\* The loop over the value entries from the i-th on: [err, panic, v], v the
\* values.  Once d.err is set no later turn decodes anything.
ValuesLoop(ignoreDecodeErr, data, isSmall, isObject, count, i, values) ==
    IF i >= count THEN Decoded(values)
    ELSE LET entryOffset == 2 * jsonbGetOffsetSize(isSmall) +
                            jsonbGetValueEntrySize(isSmall) * i +
                            (IF isObject THEN jsonbGetKeyEntrySize(isSmall) * count
                             ELSE 0)
             tp == data[entryOffset + 1]
             valueOffset == decodeCount(data, entryOffset + 1, isSmall)
             r == IF isInlineValue(tp, isSmall)
                  THEN decodeValue(ignoreDecodeErr, tp,
                           SubSeq(data, entryOffset + 2,
                                  entryOffset + jsonbGetValueEntrySize(isSmall)))
                  ELSE IF Len(data) < valueOffset THEN DecodeFailed
                  ELSE decodeValue(ignoreDecodeErr, tp, From(data, valueOffset))
         IN IF r.err \/ r.panic THEN r
            ELSE ValuesLoop(ignoreDecodeErr, data, isSmall, isObject, count, i + 1,
                            Append(values, r.v))

decodeObjectOrArray(ignoreDecodeErr, data, isSmall, isObject) ==
    LET offsetSize == jsonbGetOffsetSize(isSmall)
    IN IF Len(data) < 2 * offsetSize THEN DecodeFailed
       ELSE LET count == decodeCount(data, 0, isSmall)
                size == decodeCount(data, offsetSize, isSmall)
                headerSize == 2 * offsetSize + count * jsonbGetValueEntrySize(isSmall) +
                              (IF isObject THEN count * jsonbGetKeyEntrySize(isSmall)
                               ELSE 0)
            IN IF Len(data) < size
               THEN IF ignoreDecodeErr THEN Decoded(Nil) ELSE DecodeFailed
               ELSE IF headerSize > size THEN DecodeFailed
               ELSE LET k == IF isObject
                             THEN KeysLoop(data, isSmall, count, headerSize, 0, <<>>)
                             ELSE [err |-> FALSE, keys |-> <<>>]
                        r == ValuesLoop(ignoreDecodeErr, data, isSmall, isObject,
                                        count, 0, <<>>)
                    IN IF k.err THEN DecodeFailed
                       ELSE IF r.err \/ r.panic THEN r
                       ELSE IF isObject
                       THEN Decoded(Scalar("object", MapOf(k.keys, r.v)))
                       ELSE Decoded(Scalar("array", r.v))

decodeValue(ignoreDecodeErr, tp, data) ==
    IF tp = JSONB_SMALL_OBJECT
    THEN decodeObjectOrArray(ignoreDecodeErr, data, TRUE, TRUE)
    ELSE IF tp = JSONB_LARGE_OBJECT
    THEN decodeObjectOrArray(ignoreDecodeErr, data, FALSE, TRUE)
    ELSE IF tp = JSONB_SMALL_ARRAY
    THEN decodeObjectOrArray(ignoreDecodeErr, data, TRUE, FALSE)
    ELSE IF tp = JSONB_LARGE_ARRAY
    THEN decodeObjectOrArray(ignoreDecodeErr, data, FALSE, FALSE)
    ELSE IF tp = JSONB_LITERAL THEN decodeLiteral(data)
    ELSE IF tp = JSONB_INT16 THEN decodeFixed("int16", data, 2)
    ELSE IF tp = JSONB_UINT16 THEN decodeFixed("uint16", data, 2)
    ELSE IF tp = JSONB_INT32 THEN decodeFixed("int32", data, 4)
    ELSE IF tp = JSONB_UINT32 THEN decodeFixed("uint32", data, 4)
    ELSE IF tp = JSONB_INT64 THEN decodeFixed("int64", data, 8)
    ELSE IF tp = JSONB_UINT64 THEN decodeFixed("uint64", data, 8)
    ELSE IF tp = JSONB_DOUBLE THEN decodeFixed("double", data, 8)
    ELSE IF tp = JSONB_STRING THEN decodeString(data)
    ELSE IF tp = JSONB_OPAQUE THEN decodeOpaque(data)
    ELSE DecodeFailed

\* RowsEvent.decodeJsonBinary: [err, panic, v], v the value that json.Marshal
\* is given, nil being written as null.
decodeJsonBinary(data, ignoreJSONDecodeErr) ==
    IF Len(data) < 1 THEN DecodeFailed
    ELSE decodeValue(ignoreJSONDecodeErr, data[1], Tail(data))

(* ------------------------- calls on JSON binary ------------------------ *)

U16(n) == <<n % 256, n \div 256>>
U32(n) == U16(n) \o <<0, 0>>

\* A small array, a small object with one key and a large array: the type,
\* count, size, the entries and what follows them.
SmallArray(count, size, entries, rest) ==
    <<JSONB_SMALL_ARRAY>> \o U16(count) \o U16(size) \o entries \o rest
SmallObject(size, keyOffset, keyLength, valueEntry, rest) ==
    <<JSONB_SMALL_OBJECT>> \o U16(1) \o U16(size) \o U16(keyOffset) \o
    U16(keyLength) \o valueEntry \o rest
LargeArray(count, size, entries, rest) ==
    <<JSONB_LARGE_ARRAY>> \o U32(count) \o U32(size) \o entries \o rest

\* Well-formed values.
ValidJson ==
    {<<JSONB_LITERAL, 0>>, <<JSONB_LITERAL, 1>>, <<JSONB_LITERAL, 2>>,
     <<JSONB_INT16, 1, 0>>, <<JSONB_UINT16, 255, 255>>,
     <<JSONB_INT32, 1, 0, 0, 0>>, <<JSONB_UINT32, 1, 0, 0, 128>>,
     <<JSONB_INT64, 1, 2, 3, 4, 5, 6, 7, 8>>,
     <<JSONB_UINT64, 1, 2, 3, 4, 5, 6, 7, 8>>,
     <<JSONB_DOUBLE, 0, 0, 0, 0, 0, 0, 240, 63>>,
     <<JSONB_STRING, 0>>, <<JSONB_STRING, 1, 97>>,
     <<JSONB_OPAQUE, 15, 1, 97>>,
     <<JSONB_OPAQUE, MYSQL_TYPE_TIME, 8, 1, 2, 3, 4, 5, 6, 7, 0>>,
     <<JSONB_OPAQUE, MYSQL_TYPE_DATETIME, 8, 1, 2, 3, 4, 5, 6, 7, 0>>,
     SmallArray(0, 4, <<>>, <<>>),
     SmallArray(1, 7, <<JSONB_LITERAL, 1, 0>>, <<>>),
     SmallArray(2, 10, <<JSONB_LITERAL, 1, 0, JSONB_INT16, 5, 0>>, <<>>),
     SmallArray(1, 9, <<JSONB_STRING, 7, 0>>, <<1, 97>>),
     SmallArray(1, 11, <<JSONB_SMALL_ARRAY, 7, 0>>, <<0, 0, 4, 0>>),
     SmallObject(12, 11, 1, <<JSONB_LITERAL, 1, 0>>, <<97>>),
     SmallObject(14, 11, 1, <<JSONB_STRING, 12, 0>>, <<97, 1, 98>>),
     LargeArray(0, 8, <<>>, <<>>),
     LargeArray(1, 13, <<JSONB_INT32, 5, 0, 0, 0>>, <<>>)}

\* Objects and arrays whose declared size is more than the bytes there are.
SizeBeyondData ==
    {SmallArray(0, 5, <<>>, <<>>),
     SmallArray(1, 200, <<JSONB_LITERAL, 1, 0>>, <<>>),
     SmallArray(1, 8, <<JSONB_LITERAL, 9, 0>>, <<>>),
     SmallArray(2, 8, <<JSONB_LITERAL, 1, 0>>, <<>>),
     SmallObject(13, 11, 1, <<JSONB_LITERAL, 1, 0>>, <<97>>),
     SmallObject(300, 3, 1, <<13, 1, 0>>, <<97>>),
     LargeArray(0, 9, <<>>, <<>>),
     LargeArray(1, 65536, <<JSONB_INT32, 5, 0, 0, 0>>, <<>>)}

HeaderBeyondSize ==
    {SmallArray(1, 4, <<JSONB_LITERAL, 1, 0>>, <<>>),
     SmallArray(2, 7, <<JSONB_LITERAL, 1, 0>>, <<>>),
     SmallArray(3, 10, <<JSONB_LITERAL, 1, 0, JSONB_INT16, 5, 0>>, <<>>),
     SmallObject(7, 11, 1, <<JSONB_LITERAL, 1, 0>>, <<97>>),
     SmallObject(10, 11, 1, <<JSONB_LITERAL, 1, 0>>, <<97>>),
     LargeArray(1, 12, <<JSONB_INT32, 5, 0, 0, 0>>, <<>>)}

KeyInsideHeader ==
    {SmallObject(12, 3, 1, <<JSONB_LITERAL, 1, 0>>, <<97>>),
     SmallObject(12, 0, 1, <<JSONB_LITERAL, 1, 0>>, <<97>>),
     SmallObject(12, 10, 1, <<JSONB_LITERAL, 1, 0>>, <<97>>)}

InvalidType ==
    {<<13>>, <<14, 0>>, <<16, 1, 0>>, <<255, 0, 0, 0, 0>>,
     SmallArray(1, 8, <<13, 7, 0>>, <<0>>),
     SmallObject(13, 11, 1, <<14, 12, 0>>, <<97, 0>>),
     LargeArray(1, 14, <<200, 13, 0, 0, 0>>, <<0>>)}

InvalidLiteral ==
    {<<JSONB_LITERAL, 3>>, <<JSONB_LITERAL, 255>>,
     SmallArray(1, 7, <<JSONB_LITERAL, 9, 0>>, <<>>),
     SmallObject(12, 11, 1, <<JSONB_LITERAL, 3, 0>>, <<97>>),
     LargeArray(1, 13, <<JSONB_LITERAL, 4, 0, 0, 0>>, <<>>)}

\* Scalars cut short of the bytes their type or their length asks for.
TruncatedScalar ==
    {<<JSONB_LITERAL>>, <<JSONB_INT16>>, <<JSONB_INT16, 1>>, <<JSONB_UINT16, 1>>,
     <<JSONB_INT32, 1, 0, 0>>, <<JSONB_UINT32, 1>>,
     <<JSONB_INT64, 1, 2, 3, 4, 5, 6, 7>>, <<JSONB_UINT64>>,
     <<JSONB_DOUBLE, 1, 2, 3>>,
     <<JSONB_STRING>>, <<JSONB_STRING, 2, 97>>, <<JSONB_STRING, 128>>,
     <<JSONB_OPAQUE>>, <<JSONB_OPAQUE, 15>>, <<JSONB_OPAQUE, 15, 2, 97>>,
     <<JSONB_OPAQUE, MYSQL_TYPE_TIME, 4, 1, 2, 3, 4>>,
     <<JSONB_OPAQUE, MYSQL_TYPE_DATE, 0>>,
     <<JSONB_OPAQUE, MYSQL_TYPE_NEWDECIMAL, 0>>,
     <<JSONB_OPAQUE, MYSQL_TYPE_NEWDECIMAL, 1, 10>>,
     SmallArray(1, 8, <<JSONB_INT32, 7, 0>>, <<1>>),
     SmallArray(1, 8, <<JSONB_STRING, 7, 0>>, <<3>>),
     SmallObject(13, 11, 1, <<JSONB_INT64, 12, 0>>, <<97, 1>>)}

JsonInputs ==
    [kind : {"valid"}, data : ValidJson] \cup
    [kind : {"size beyond data"}, data : SizeBeyondData] \cup
    [kind : {"header beyond size"}, data : HeaderBeyondSize] \cup
    [kind : {"key inside header"}, data : KeyInsideHeader] \cup
    [kind : {"invalid type"}, data : InvalidType] \cup
    [kind : {"invalid literal"}, data : InvalidLiteral] \cup
    [kind : {"truncated scalar"}, data : TruncatedScalar]

InitJson ==
    /\ ZeroPool
    /\ gtidSet = NoSets
    /\ \E in \in JsonInputs, ignoreJSONDecodeErr \in BOOLEAN :
           call = Called("decodeJsonBinary",
                         [kind |-> in.kind, data |-> in.data,
                          ignoreJSONDecodeErr |-> ignoreJSONDecodeErr])

decodeJsonBinary_Call ==
    /\ call.fn = "decodeJsonBinary"
    /\ ~call.done
    /\ Returns(decodeJsonBinary(call.in.data, call.in.ignoreJSONDecodeErr))
    /\ NoPool
    /\ UNCHANGED gtidSet

NextJson == decodeJsonBinary_Call

JsonSpec == InitJson /\ [][NextJson]_vars

(* ------------------- MysqlGTIDSet: sets of *UUIDSet ----------------- *)

\* Sets map[string]*UUIDSet with the pointers kept: heap holds the UUIDSet
\* objects by address, s and a are two MysqlGTIDSets (the address under each
\* key), u is a *UUIDSet that the caller holds.
MaxObjects == 2

AliasLists == {<<Interval(1, 2)>>, <<Interval(2, 3)>>}

\* new(UUIDSet) holding set: its address is the last one.
Alloc(h, set) == [h EXCEPT !.heap = Append(h.heap, set)]

\* The MysqlGTIDSet t of h as its values.
ValueOf(h, t) == [key \in DOMAIN h[t] |-> h.heap[h[t][key]]]

\* t.AddSet(p), p the address of the argument.
Heap_AddSet(h, t, p) ==
    LET sid == UUID_String(h.heap[p].SID)
    IN IF sid \in DOMAIN h[t]
       THEN [h EXCEPT !.heap[h[t][sid]].Intervals =
                 AddInterval(h.heap[h[t][sid]], h.heap[p].Intervals)]
       ELSE [h EXCEPT ![t] = MapPut(h[t], sid, p)]

\* t.AddSet(&set) of a set that nothing else refers to: it is on the heap
\* once AddSet has kept its address.
Heap_AddSet_New(h, t, set) ==
    IF UUID_String(set.SID) \in DOMAIN h[t]
    THEN [h EXCEPT !.heap[h[t][UUID_String(set.SID)]].Intervals =
              AddInterval(h.heap[h[t][UUID_String(set.SID)]], set.Intervals)]
    ELSE Heap_AddSet(Alloc(h, set), t, Len(h.heap) + 1)

\* t.MinusSet(&set).
Heap_MinusSet(h, t, set) ==
    LET sid == UUID_String(set.SID)
    IN IF sid \in DOMAIN h[t]
       THEN LET left == MinusInterval(h.heap[h[t][sid]].Intervals, set.Intervals)
                minus == [h EXCEPT !.heap[h[t][sid]].Intervals = left]
            IN IF left = <<>> THEN [minus EXCEPT ![t] = MapDelete(h[t], sid)]
               ELSE minus
       ELSE h

\* t.AddGTID(uuid, gno).
Heap_AddGTID(h, t, uuid, gno) ==
    LET sid == UUID_String(uuid)
    IN IF sid \in DOMAIN h[t]
       THEN [h EXCEPT !.heap[h[t][sid]].Intervals =
                 InsertInterval(h.heap[h[t][sid]].Intervals, Interval(gno, gno + 1))]
       ELSE [Alloc(h, UUIDSet(uuid, <<Interval(gno, gno + 1)>>))
                EXCEPT ![t] = MapPut(h[t], sid, Len(h.heap) + 1)]

RECURSIVE Heap_Add(_, _, _, _)
\* t.Add(*o), the map of o ranged over in the order of the keys in order.
Heap_Add(h, t, o, order) ==
    IF order = <<>> THEN h
    ELSE Heap_Add(Heap_AddSet(h, t, h[o][Head(order)]), t, o, Tail(order))

RECURSIVE Heap_UpdateLoop(_, _, _, _)
\* The loop of Update over the sets that ParseMysqlGTIDSet made.
Heap_UpdateLoop(h, t, sets, order) ==
    IF order = <<>> THEN h
    ELSE Heap_UpdateLoop(Heap_AddSet_New(h, t, sets[Head(order)]), t, sets,
                         Tail(order))

RECURSIVE Heap_CloneLoop(_, _, _, _)
\* The loop of Clone: into.Sets[sid] = uuidSet.Clone().
Heap_CloneLoop(h, t, into, order) ==
    IF order = <<>> THEN h
    ELSE Heap_CloneLoop(
             [Alloc(h, h.heap[h[t][Head(order)]])
                 EXCEPT ![into] = MapPut(h[into], Head(order), Len(h.heap) + 1)],
             t, into, Tail(order))

\* into = t.Clone().
Heap_Clone(h, t, into, order) ==
    Heap_CloneLoop([h EXCEPT ![into] = EmptySets], t, into, order)

Other(t) == IF t = "s" THEN "a" ELSE "s"

\* The step leaves gtidSet as h, within the objects of the model, and the
\* call that returned is one of fn on the object named by on.
HeapReturns(h, fn, on) ==
    /\ Len(h.heap) <= MaxObjects
    /\ gtidSet' = h
    /\ call' = Returned("a method of " \o on, on, <<>>)
    /\ NoPool

\* Two empty sets and a UUIDSet of the caller.
InitAlias ==
    /\ ZeroPool
    /\ call = NoCall
    /\ \E uuid \in UUIDs :
           gtidSet = [heap |-> <<UUIDSet(uuid, <<Interval(1, 2)>>)>>,
                      s |-> EmptySets, a |-> EmptySets, u |-> 1]

\* t.AddSet(u).
AddSet_Held_Call ==
    \E t \in {"s", "a"} : HeapReturns(Heap_AddSet(gtidSet, t, gtidSet.u), "AddSet", t)

\* t.AddSet(NewUUIDSet(...)).
AddSet_New_Call ==
    \E t \in {"s", "a"}, uuid \in UUIDs :
        HeapReturns(Heap_AddSet_New(gtidSet, t, UUIDSet(uuid, <<Interval(2, 3)>>)),
                    "AddSet", t)

MinusSet_New_Call ==
    \E t \in {"s", "a"}, uuid \in UUIDs, in \in AliasLists :
        HeapReturns(Heap_MinusSet(gtidSet, t, UUIDSet(uuid, in)), "MinusSet", t)

AddGTID_Heap_Call ==
    \E t \in {"s", "a"}, uuid \in UUIDs, gno \in 1..2 :
        HeapReturns(Heap_AddGTID(gtidSet, t, uuid, gno), "AddGTID", t)

\* t.Add(*o), o the other set.
Add_Call ==
    \E t \in {"s", "a"} : \E order \in Orders(gtidSet[Other(t)]) :
        HeapReturns(Heap_Add(gtidSet, t, Other(t), order), "Add", t)

\* What ParseMysqlGTIDSet makes of the texts given to Update.
AliasUpdates ==
    {ParseMysqlGTIDSet(GTIDStr).sets : GTIDStr \in TextsOver({<<Interval(2, 3)>>})}

\* t.Update(GTIDStr) of a text that parses.
Update_Heap_Call ==
    \E t \in {"s", "a"}, sets \in AliasUpdates : \E order \in Orders(sets) :
        HeapReturns(Heap_UpdateLoop(gtidSet, t, sets, order), "Update", t)

\* The other set = t.Clone().
Clone_Call ==
    \E t \in {"s", "a"} : \E order \in Orders(gtidSet[t]) :
        HeapReturns(Heap_Clone(gtidSet, t, Other(t), order), "Clone", Other(t) \o " = Clone()")

\* u.AddInterval(in) and u.MinusInterval(in) by the caller that holds u.
AddInterval_Held_Call ==
    \E in \in AliasLists :
        HeapReturns([gtidSet EXCEPT !.heap[gtidSet.u].Intervals =
                         AddInterval(gtidSet.heap[gtidSet.u], in)],
                    "AddInterval", "u")

MinusInterval_Held_Call ==
    \E in \in AliasLists :
        HeapReturns([gtidSet EXCEPT !.heap[gtidSet.u].Intervals =
                         MinusInterval(gtidSet.heap[gtidSet.u].Intervals, in)],
                    "MinusInterval", "u")

NextAlias ==
    \/ AddSet_Held_Call
    \/ AddSet_New_Call
    \/ MinusSet_New_Call
    \/ AddGTID_Heap_Call
    \/ Add_Call
    \/ Update_Heap_Call
    \/ Clone_Call
    \/ AddInterval_Held_Call
    \/ MinusInterval_Held_Call

AliasSpec == InitAlias /\ [][NextAlias]_vars

(* =============================== claims ================================ *)

\* How many goroutines and slices hold connection id.
AllHeld ==
    idleConnections \o <<prod.connection>> \o jan.toPing \o jan.toClose
        \o snc["prewarm"].connections \o snc["janitor"].connections
        \o [c \in Callers |-> caller[c].connection]

Occurrences(id) == Cardinality({i \in DOMAIN AllHeld : AllHeld[i].conn = id})

\* C1: in every reachable state TotalCount is at most maxAlive.
C1_TotalCountAtMostMaxAlive == stats.TotalCount <= maxAlive

\* C2: a connection has at most one owner at a time: one GetConn has handed
\* to a caller is held by no other caller, is not on the idle list, not with
\* the producer and not under the janitor's recheck, until it is given back.
C2_OneOwner ==
    \A id \in ConnIds :
        /\ Occurrences(id) <= 1
        /\ \A c \in Callers :
              (caller[c].pc = "holding" /\ caller[c].connection.conn = id)
                  => /\ id \notin ConnsOf(idleConnections)
                     /\ prod.connection.conn # id
                     /\ id \notin ConnsOf(jan.toPing)
                     /\ \A d \in Callers \ {c} : caller[d].connection.conn # id

\* Both callers hold a connection GetConn returned, each its own.
C2_Witness ==
    /\ \A c \in Callers : caller[c].pc = "holding" /\ caller[c].connection.conn # 0
    /\ caller[1].connection.conn # caller[2].connection.conn

\* C3: the idle list never holds more than maxIdle connections; a PutConn, a
\* janitor re-insert or a startNewConnections insert that finds no waiter and
\* the list already holding maxIdle connections closes the connection and
\* takes exactly one off TotalCount for it, and stores nothing.
C3_FullClosesInstead(id) ==
    /\ idleConnections' = idleConnections
    /\ connState'[id] = "closed"

C3_IdleAtMostMaxIdle ==
    /\ [](Len(idleConnections) <= maxIdle)
    /\ [][(recvq = <<>> /\ Len(idleConnections) = maxIdle) =>
            /\ \A c \in Callers :
                  PutConn(c) =>
                      /\ C3_FullClosesInstead(caller[c].connection.conn)
                      /\ stats'.TotalCount = stats.TotalCount - 1
            /\ \A i \in 1..workerCnt :
                  recheckConnections_Alive(i) =>
                      /\ C3_FullClosesInstead(jan.toPing[i].conn)
                      /\ stats'.TotalCount = stats.TotalCount - 1
            /\ \A t \in Tasks :
                  startNewConnections_Put(t) =>
                      /\ \A id \in ConnsOf(snc[t].connections) :
                            C3_FullClosesInstead(id)
                      /\ stats'.TotalCount =
                            stats.TotalCount - Len(snc[t].connections)
         ]_vars

\* A caller is about to give a connection back while nobody waits and the
\* idle list already holds maxIdle (at least one) connections.
C3_Witness ==
    /\ maxIdle > 0
    /\ Len(idleConnections) = maxIdle
    /\ idleCap = maxIdle
    /\ recvq = <<>>
    /\ \E c \in Callers : caller[c].pc = "holding"

\* Callers have stopped: no call is in progress and nothing is checked out.
Quiesced == \A c \in Callers : caller[c].pc = "idle"

\* A dial is pending that can never return, connect() being out of connections.
Starved ==
    /\ stats.CreatedCount = MaxConns
    /\ \/ prod.pc = "dial"
       \/ \E t \in Tasks : snc[t].active /\ snc[t].left > 0

\* C4: with connect() always succeeding and the pool not closed, once callers
\* have stopped for good the pool reaches, and from then on stays in, states
\* with minAlive <= TotalCount <= maxAlive.
C4_SettlesBetweenMinAndMax ==
    (<>[]Quiesced /\ []~ctxDone) =>
        <>[](Starved \/ (minAlive <= stats.TotalCount /\ stats.TotalCount <= maxAlive))

C6_GetConnAfterClose ==
    [][\A c \in Callers :
          (closer = "returned" /\ caller[c].pc = "idle" /\ GetConn(c)) =>
              /\ caller'[c].pc = "idle"
              /\ caller'[c].result = "PoolClosed"
              /\ caller'[c].connection = NoConn
              /\ idleConnections' = idleConnections
              /\ stats' = stats
              /\ connState' = connState]_vars

\* A call that began after Close had returned has failed with PoolClosed.
C6_Witness ==
    \E c \in Callers :
        /\ closer = "returned"
        /\ caller[c].afterClose
        /\ caller[c].result = "PoolClosed"

\* C7: a GetConn that has been handed no connection and whose context is
\* cancelled while it waits returns the context's error and no connection and
\* is no longer a receiver; none of its steps, from finding the idle list
\* empty on, changes the idle list, TotalCount or a connection.
C7_CancelledWhileWaiting ==
    [][\A c \in Callers :
          caller[c].handed = "none" =>
              /\ getConnection_CtxDone(c) =>
                    /\ caller'[c].pc = "idle"
                    /\ caller'[c].result = "ctxErr"
                    /\ caller'[c].connection = NoConn
                    /\ c \notin {recvq'[i] : i \in DOMAIN recvq'}
              /\ (\/ getConnection_Lock(c) /\ idleConnections = <<>>
                  \/ getConnection_Select(c)
                  \/ getConnection_CtxDone(c)) =>
                    /\ idleConnections' = idleConnections
                    /\ stats' = stats
                    /\ connState' = connState]_vars

\* A call that was handed nothing has returned the context's error while a
\* connection was on its way to the channel.
C7_Witness ==
    \E c \in Callers :
        /\ caller[c].pc = "idle"
        /\ caller[c].result = "ctxErr"
        /\ caller[c].handed = "none"
        /\ prod.pc = "send"

\* C8: GetConn returns a connection last used more than idlePingTimeout
\* seconds ago only after pinging it in the same call; when the ping fails
\* the connection is closed, TotalCount goes down by one and the call goes
\* back to the top of its loop without a result.
C8_PingBeforeReuse ==
    [][\A c \in Callers :
          /\ GetConn_Return(c) =>
                \/ now - caller[c].connection.lastUseAt <= idlePingTimeout
                \/ caller'[c].pinged
          /\ GetConn_PingFailed(c) =>
                /\ now - caller[c].connection.lastUseAt > idlePingTimeout
                /\ connState[caller[c].connection.conn] = "open"
                /\ connState'[caller[c].connection.conn] = "closed"
                /\ stats'.TotalCount = stats.TotalCount - 1
                /\ caller'[c].pc = "loop"
                /\ caller'[c].result = "none"]_vars

\* One caller holds an old connection that it pinged, and the other is back
\* at the top of its loop after a failed ping.
C8_Witness ==
    \E a, b \in Callers :
        /\ caller[a].pc = "holding"
        /\ caller[a].pinged
        /\ caller[b].pc = "loop"

\* C9: PutConn can always run to its end; when a GetConn is blocked on
\* readyConnection the connection goes to the one blocked longest and the
\* idle list is unchanged; otherwise the connection is appended to the idle
\* list, or closed (TotalCount minus one) when the list is at its capacity.
C9_PutConnNeverBlocks ==
    /\ [](\A c \in Callers : caller[c].pc = "holding" => ENABLED PutConn(c))
    /\ [][\A c \in Callers :
             PutConn(c) =>
                 IF recvq # <<>>
                 THEN /\ caller'[Head(recvq)].pc = "check"
                      /\ caller'[Head(recvq)].connection.conn =
                             caller[c].connection.conn
                      /\ recvq' = Tail(recvq)
                      /\ idleConnections' = idleConnections
                      /\ stats' = stats
                 ELSE \/ /\ Len(idleConnections) < idleCap
                         /\ idleConnections' =
                                Append(idleConnections,
                                       Connection(caller[c].connection.conn, now))
                         /\ stats' = stats
                      \/ /\ Len(idleConnections) = idleCap
                         /\ idleConnections' = idleConnections
                         /\ connState'[caller[c].connection.conn] = "closed"
                         /\ stats'.TotalCount = stats.TotalCount - 1]_vars

\* A blocked GetConn has received the connection that a PutConn gave back.
C9_Witness ==
    \E w \in Callers :
        /\ caller[w].pc = "check"
        /\ caller[w].handed = "PutConn"

\* C10: once Close has returned the producer and the janitor have exited, the
\* idle list is empty and stays empty, the producer holds nothing, and every
\* checked-out connection is open; the producer closes the connection it holds
\* when it exits, and Close closes every idle connection.
C10_AfterClose ==
    /\ [](closer = "returned" =>
             /\ prod.pc = "done"
             /\ jan.pc = "done"
             /\ prod.connection = NoConn
             /\ jan.toPing = <<>>
             /\ idleConnections = <<>>)
    /\ [](\A c \in Callers :
             caller[c].pc = "holding" =>
                 connState[caller[c].connection.conn] = "open")
    /\ [][/\ newConnectionProducer_CtxDone =>
                connState'[prod.connection.conn] = "closed"
          /\ Close_Return =>
                \A i \in DOMAIN idleConnections :
                    connState'[idleConnections[i].conn] = "closed"]_vars

\* Close has returned after closing a connection, and a caller still holds
\* an open one.
C10_Witness ==
    /\ closer = "returned"
    /\ \E id \in ConnIds : connState[id] = "closed"
    /\ \E c \in Callers :
           /\ caller[c].pc = "holding"
           /\ connState[caller[c].connection.conn] = "open"

\* C11: whatever minAlive, maxAlive and maxIdle are requested, the pool that
\* NewPoolWithOptions builds has minAlive <= maxAlive, maxIdle <= maxAlive
\* and maxIdle >= minAlive.
C11_LimitsNormalised ==
    (call.fn = "NewPoolWithOptions" /\ call.done) =>
        /\ minAlive <= maxAlive
        /\ maxIdle <= maxAlive
        /\ maxIdle >= minAlive

\* A pool was built from a request with minAlive above maxAlive and maxIdle
\* below minAlive.
C11_Witness ==
    /\ call.fn = "NewPoolWithOptions"
    /\ call.done
    /\ call.in[1] > call.in[2]
    /\ call.in[3] < call.in[2]
    /\ limits # [minAlive |-> call.in[1], maxAlive |-> call.in[2],
                 maxIdle |-> call.in[3]]

\* C12: a connection that the janitor has cut off the idle list as surplus,
\* to close it, has been idle (now - lastUseAt) for idleCloseTimeout seconds
\* or more.
C12_SurplusClosedOnlyWhenOld ==
    jan.pc = "closing" =>
        \A i \in DOMAIN jan.toClose :
            now - jan.toClose[i].lastUseAt >= idleCloseTimeout

C14_NormalizeSound ==
    (call.fn = "Normalize" /\ call.done) =>
        /\ IsNormalized(call.out)
        /\ Covered(call.out) = Covered(call.in)
        /\ Normalize(call.out) = call.out

\* An unsorted list with an overlap and a touching pair became one interval.
C14_Witness ==
    /\ call.fn = "Normalize"
    /\ call.done
    /\ call.in = <<Interval(2, 3), Interval(0, 2), Interval(-1, 1)>>
    /\ call.out = <<Interval(-1, 3)>>

\* C15: for normalized a and b, MinusInterval leaves a normalized slice that
\* covers the numbers of a that are not in b, and no others.
C15_MinusIsDifference ==
    (call.fn = "MinusInterval" /\ call.done) =>
        /\ IsNormalized(call.out)
        /\ Covered(call.out) = Covered(call.in[1]) \ Covered(call.in[2])

\* C16: for normalized s and sub, Contain is true exactly when every number
\* that sub covers is covered by s.
C16_ContainIsSubset ==
    (call.fn = "Contain" /\ call.done) =>
        (call.out <=> Covered(call.in[2]) \subseteq Covered(call.in[1]))

\* Contain was true of a sub of two intervals that is not s itself.
C16_Witness ==
    /\ call.fn = "Contain"
    /\ call.done
    /\ call.out
    /\ Len(call.in[2]) = 2
    /\ call.in[1] # call.in[2]

\* C17: for every MysqlGTIDSet g (any number of UUIDs, each with a normalized
\* interval list, the empty set included), DecodeMysqlGTIDSet(g.Encode())
\* succeeds and returns a set Equal to g, with the same UUID keys and the same
\* intervals under every key.
C17_DecodeOfEncode ==
    call.fn = "DecodeMysqlGTIDSet(Encode)" =>
        /\ ~call.out.err
        /\ ~call.out.panic
        /\ MysqlGTIDSet_Equal(call.out.sets, call.in.encoded)
        /\ MysqlGTIDSet_Equal(call.in.encoded, call.out.sets)
        /\ DOMAIN call.out.sets = DOMAIN call.in.encoded
        /\ \A key \in DOMAIN call.out.sets :
               call.out.sets[key] = call.in.encoded[key]

\* Two UUIDs, one with two intervals and a negative number, one with none,
\* encoded and decoded.
C17_Witness ==
    /\ call.fn = "DecodeMysqlGTIDSet(Encode)"
    /\ Cardinality(DOMAIN call.in.encoded) = 2
    /\ call.in.encoded[UUID_String(UUIDOf(1))].Intervals =
           <<Interval(-1, 1), Interval(3, 4)>>
    /\ call.in.encoded[UUID_String(UUIDOf(2))].Intervals = <<>>
    /\ Len(call.in.data) = 8 + 24 + 32 + 24
    /\ call.out.sets = call.in.encoded

\* C18: for a buffer whose declared UUID count or declared interval count
\* (a 64-bit little-endian field, over its whole range) requires more bytes
\* than the buffer holds, DecodeMysqlGTIDSet and UUIDSet.Decode return an
\* error: they do not panic and do not return a decoded set.
C18_ShortBufferIsAnError ==
    /\ ( /\ call.fn = "UUIDSet.Decode"
         /\ call.done
         /\ Len(call.in) >= 24
         /\ 16 * Uint64(SubSeq(call.in, 17, 24)) + 24 > Len(call.in) )
       => (call.out.err /\ ~call.out.panic)
    /\ ( /\ call.fn = "DecodeMysqlGTIDSet"
         /\ call.done
         /\ Len(call.in) >= 8
         /\ 24 * Uint64(SubSeq(call.in, 1, 8)) + 8 > Len(call.in) )
       => (call.out.err /\ ~call.out.panic)
    /\ ( /\ call.fn = "DecodeMysqlGTIDSet"
         /\ call.done
         /\ Len(call.in) >= 32
         /\ Uint64(SubSeq(call.in, 1, 8)) = 1
         /\ 16 * Uint64(SubSeq(call.in, 25, 32)) + 32 > Len(call.in) )
       => (call.out.err /\ ~call.out.panic)

\* C19: for every MysqlGTIDSet reached through the public operations,
\* ParseMysqlGTIDSet of its String() succeeds and the parsed set prints as the
\* same string; the printed form does not depend on the order of the UUIDs
\* in the map.
C19_ParseOfPrinted ==
    /\ call.fn = "ParseMysqlGTIDSet(String)" =>
           /\ ~call.out.err
           /\ \A order \in Orders(call.out.sets) :
                  MysqlGTIDSet_String(call.out.sets, order) = call.in
    /\ \A o1, o2 \in Orders(gtidSet) :
           MysqlGTIDSet_String(gtidSet, o1) = MysqlGTIDSet_String(gtidSet, o2)

\* C20: from a parsed set, after any AddSet, MinusSet, Update and AddGTID,
\* every UUID entry present has a normalized and non-empty interval list.
C20_EntriesNormalizedNonEmpty ==
    \A key \in DOMAIN gtidSet :
        /\ gtidSet[key].Intervals # <<>>
        /\ IsNormalized(gtidSet[key].Intervals)

\* C21: for every normalized slice s and every interval i with Stop > Start,
\* InsertInterval(i) leaves s equal to Normalize(s with i appended); and
\* AddGTID(uuid, gno) leaves the same set as AddSet of a UUIDSet for uuid that
\* holds the single interval [gno, gno+1).
C21_InsertIsNormalizeOfAppend ==
    /\ (call.fn = "InsertInterval" /\ call.done) =>
           /\ call.out = Normalize(Append(call.in[1], call.in[2]))
           /\ Equal(call.out, Normalize(Append(call.in[1], call.in[2])))
    /\ (call.fn = "AddGTID" /\ call.done) =>
           call.out = AddSet(call.in[1],
                             UUIDSet(call.in[2],
                                     <<Interval(call.in[3], call.in[3] + 1)>>))

\* An interval that bridges the first two of three intervals was inserted.
C21_Witness ==
    /\ call.fn = "InsertInterval"
    /\ call.done
    /\ call.in[1] = <<Interval(-1, 0), Interval(1, 2), Interval(3, 4)>>
    /\ call.in[2] = Interval(0, 1)
    /\ call.out = <<Interval(-1, 2), Interval(3, 4)>>

\* C22, the steps of the producer around a failed connect(): the failure gives
\* back the slot reserved for the dial, the producer then waits in the backoff
\* and goes back to the top of its loop, and it returns only with the pool
\* context cancelled.
C22_FailedConnectSteps ==
    /\ (prod.pc = "top" /\ prod'.pc = "dial") =>
           stats'.TotalCount = stats.TotalCount + 1
    /\ (prod.pc = "dial" /\ prod'.pc # "dial") =>
           \/ prod'.pc = "send" /\ stats'.TotalCount = stats.TotalCount
           \/ prod'.pc = "backoff" /\ stats'.TotalCount = stats.TotalCount - 1
    /\ (prod.pc = "backoff" /\ prod'.pc # "backoff") =>
           \/ prod'.pc = "top"
           \/ prod'.pc = "done" /\ ctxDone
    /\ prod'.pc = "done" => ctxDone'

\* C22: when the producer's connect() fails the reserved slot is released, the
\* producer backs off and tries again, and it terminates only after the pool
\* context is cancelled; so with a connect() that eventually succeeds, a
\* caller blocked on readyConnection while the producer is backing off
\* eventually comes out of the receive (or the pool is closed, or connect()
\* has run out of connections).
C22_ProducerRetriesAfterFailedConnect ==
    /\ [][C22_FailedConnectSteps]_vars
    /\ \A c \in Callers :
           (caller[c].pc = "recv" /\ prod.pc = "backoff") ~>
               (caller[c].pc # "recv" \/ ctxDone \/ stats.CreatedCount = MaxConns)

\* connect() has failed and the producer is backing off, the slot given back,
\* while a caller is blocked on readyConnection of an open pool.
C22_Witness ==
    /\ prod.pc = "backoff"
    /\ stats.TotalCount = 0
    /\ \E c \in Callers : caller[c].pc = "recv"
    /\ ~ctxDone
    /\ stats.CreatedCount < MaxConns

\* The steps whose writes all happen between pool.synchro.Lock() and Unlock():
\* putConnection (from PutConn and from a worker of recheckConnections) and
\* the loop of putConnectionUnsafe that ends startNewConnections.
InsideTheLock ==
    \/ \E c \in Callers : PutConn(c)
    \/ \E i \in 1..workerCnt : recheckConnections_Alive(i)
    \/ \E t \in Tasks : startNewConnections_Put(t)

\* C23 as stated, for the close of a connection: outside Close, no connection
\* is closed while the pool mutex is held, so a step that runs inside the lock
\* of a pool that Close has not touched leaves every connection as it was.
C23_NoCloseInsideTheLock ==
    [][(InsideTheLock /\ closer = "none") => connState' = connState]_vars

\* The threshold of the claim for a version text: 5.3.0 with 'mariadb' in it,
\* whatever the case of the letters, 5.6.1 otherwise.
C24_Threshold(in) ==
    IF Contains(ToLower(VersionText(in)), <<"m", "a", "r", "i", "a", "d", "b">>)
    THEN VersionProduct(<<5, 3, 0>>)
    ELSE VersionProduct(<<5, 6, 1>>)

\* C24 as stated: for a server version X.Y.Z with or without a non-numeric
\* suffix, Decode takes ChecksumAlgorithm from the fifth byte from the end and
\* leaves the last 5 bytes out of EventTypeHeaderLengths when
\* (X*256+Y)*256+Z is at least the threshold, and otherwise sets
\* ChecksumAlgorithm to UNDEF (255) and keeps every remaining byte.
C24_ChecksumIffVersionAtLeastThreshold ==
    (call.fn = "FormatDescriptionEvent.Decode" /\ call.done /\
     call.in.headerLength = EventHeaderSize) =>
        LET post == call.in.post
        IN IF VersionProduct(call.in.version) >= C24_Threshold(call.in)
           THEN /\ call.out.ChecksumAlgorithm = post[Len(post) - 4]
                /\ call.out.EventTypeHeaderLengths = SubSeq(post, 1, Len(post) - 5)
           ELSE /\ call.out.ChecksumAlgorithm = BINLOG_CHECKSUM_ALG_UNDEF
                /\ call.out.EventTypeHeaderLengths = post

\* C25: after Decode of a body that carries the commit timestamps,
\* ImmediateCommitTimestamp is the first 7-byte number with bit 55 cleared and
\* OriginalCommitTimestamp is the 7-byte number that follows when bit 55 was
\* set, ImmediateCommitTimestamp otherwise; the server versions follow the
\* same rule with 4 bytes and bit 31, and both are 999999 when the transaction
\* length is there with fewer than 4 bytes after it.
C25_CommitTimestampsAndServerVersions ==
    (call.fn = "GTIDEvent.Decode" /\ call.done /\ Len(call.in.imm) = 7) =>
        LET t == call.in
            e == call.out
        IN /\ ~e.panic
           /\ e.ImmediateCommitTimestamp =
                  SubSeq(t.imm, 1, 6) \o <<t.imm[7] % 128, 0>>
           /\ e.OriginalCommitTimestamp =
                  IF t.imm[7] >= 128 THEN t.orig \o <<0>>
                  ELSE e.ImmediateCommitTimestamp
           /\ (t.len # <<>> /\ Len(t.sv) < 4) =>
                  /\ e.ImmediateServerVersion = LittleEndian(UndefinedServerVer, 4)
                  /\ e.OriginalServerVersion = LittleEndian(UndefinedServerVer, 4)
           /\ Len(t.sv) = 4 =>
                  /\ e.ImmediateServerVersion = SubSeq(t.sv, 1, 3) \o <<t.sv[4] % 128>>
                  /\ e.OriginalServerVersion =
                         IF t.sv[4] >= 128 THEN t.osv ELSE e.ImmediateServerVersion

\* Decode has returned for a body with bit 55 set in the immediate commit
\* timestamp and bit 31 set in the immediate server version.
C25_Witness ==
    /\ call.fn = "GTIDEvent.Decode"
    /\ call.done
    /\ Len(call.in.imm) = 7
    /\ call.in.imm[7] >= 128
    /\ call.in.sv # <<>>
    /\ Len(call.in.sv) = 4
    /\ call.in.sv[4] >= 128
    /\ call.out.OriginalCommitTimestamp = call.in.orig \o <<0>>
    /\ call.out.OriginalServerVersion = call.in.osv

\* The place of the first byte of data with its high bit clear among the
\* first 5, 0 when there is none.
C27_Last(data) ==
    IF \E k \in 1..Min(5, Len(data)) : data[k] < 128
    THEN CHOOSE k \in 1..Min(5, Len(data)) :
             data[k] < 128 /\ \A h \in 1..(k - 1) : data[h] >= 128
    ELSE 0

RECURSIVE C27_Low(_, _)
\* The number that the low 7 bits of the first k bytes spell, least
\* significant first, k at most 4.
C27_Low(data, k) ==
    IF k = 0 THEN 0 ELSE (data[1] % 128) + 128 * C27_Low(Tail(data), k - 1)

\* C27: decodeVariableLength reads at most 5 bytes, byte k giving its low 7
\* bits shifted left by 7k; it returns the number and the count of bytes read
\* exactly when one of the first min(5, len) bytes has its high bit clear and
\* the number is at most 2^32 - 1, and otherwise sets the error and returns
\* (0, 0).
C27_VariableLength ==
    (call.fn = "decodeVariableLength" /\ call.done) =>
        LET data == call.in
            last == C27_Last(data)
            low == C27_Low(data, Min(last, 4))
            top == IF last = 5 THEN data[5] % 128 ELSE 0
        IN IF last > 0 /\ top < 16
           THEN /\ ~call.out.err
                /\ call.out.n = last
                /\ call.out.length =
                       LittleEndian(low % 16777216, 3) \o
                       <<(low \div 16777216) + 16 * top>> \o Zeros(4)
           ELSE call.out = VariableLengthFailed

\* decodeVariableLength has returned 2^32 - 1, read from 5 bytes of a longer
\* buffer.
C27_Witness ==
    /\ call.fn = "decodeVariableLength"
    /\ call.done
    /\ call.in = <<255, 255, 255, 255, 15, 0>>
    /\ call.out = [err |-> FALSE, length |-> <<255, 255, 255, 255, 0, 0, 0, 0>>,
                   n |-> 5]

\* C26 as stated: decodeJsonBinary of an object or array whose declared size
\* is more than the data returns an error with ignoreJSONDecodeErr false and
\* the value null, without an error, with it true; a header larger than the
\* declared size, a key offset inside the header, an invalid type byte, an
\* invalid literal and a truncated scalar each return an error in both modes.
C26_ErrorsOfMalformedJson ==
    (call.fn = "decodeJsonBinary" /\ call.done) =>
        IF call.in.kind = "size beyond data"
        THEN IF call.in.ignoreJSONDecodeErr
             THEN call.out = Decoded(Nil)
             ELSE call.out = DecodeFailed
        ELSE IF call.in.kind = "valid"
        THEN ~call.out.err /\ ~call.out.panic
        ELSE call.out = DecodeFailed

\* C28 as stated: a MysqlGTIDSet shares no mutable state with the arguments
\* of AddSet and Add or with its Clone: a call that mutates one of s and a
\* leaves the other and u as they are, and a mutation of u leaves s and a as
\* they are.
C28_Frame ==
    /\ call'.in = "s" =>
           /\ ValueOf(gtidSet', "a") = ValueOf(gtidSet, "a")
           /\ gtidSet'.heap[gtidSet'.u] = gtidSet.heap[gtidSet.u]
    /\ call'.in = "a" =>
           /\ ValueOf(gtidSet', "s") = ValueOf(gtidSet, "s")
           /\ gtidSet'.heap[gtidSet'.u] = gtidSet.heap[gtidSet.u]
    /\ call'.in = "u" =>
           /\ ValueOf(gtidSet', "s") = ValueOf(gtidSet, "s")
           /\ ValueOf(gtidSet', "a") = ValueOf(gtidSet, "a")
C28_NoSharedMutableState == [][C28_Frame]_vars

\* No caller has a connection, and every connection that connect() made is
\* closed.
NothingCheckedOut == \A c \in Callers : caller[c].connection = NoConn
AllClosed == \A id \in ConnIds : connState[id] # "open"

C30_BlockedGetConnReturnsAfterClose ==
    \A c \in Callers : (caller[c].pc = "recv" /\ ctxDone) ~> caller[c].pc # "recv"

=============================================================================
